---- MODULE Spec2Model ----
(***************************************************************************)
(* State-machine model of the poll actions of inec_poll                    *)
(* (src/lib/actions/polls.ts) running against the relational store         *)
(* declared in the schema (src/unnamed/part_000), and of the validation    *)
(* layer (src/lib/validations/poll.ts).                                    *)
(*                                                                         *)
(* Every `await supabase...` of an action is one atomic step of the store; *)
(* the synchronous code that follows an await, up to the next one, belongs *)
(* to its step, and the code before the first await to the first step.     *)
(* Two request handlers (Procs) run the actions concurrently.  The server   *)
(* client is built with the service-role key                               *)
(* (src/unnamed/part_001:148-160), so row-level-security policies do not   *)
(* apply to the actions; table constraints (PRIMARY KEY, UNIQUE, FOREIGN   *)
(* KEY ... ON DELETE CASCADE) do.  The seeded poll of Init may be inactive *)
(* or carry an end date: is_active is a column no action writes.           *)
(***************************************************************************)
EXTENDS Integers, Sequences, FiniteSets, TLC

\* ------------------------------------------------------------------ bounds
MaxTime == 2
MaxCalls == 2

\* --------------------------------------------------------------- universes
Procs == {1, 2}
Users == {"u1", "u2"}
NoUser == ""
\* creator_id of a poll whose creator's profile was deleted (ON DELETE SET NULL)
NullCreator == "null"
UserInputs == Users \cup {NoUser}
PollIdInputs == {1, 2}
OptionIdInputs == {1, 2, 3}
\* an optional timestamp is a set with at most one element ({} is NULL)
EndDates == {{}, {1}}
OptionCounts == {0, 1, 2}

\* ------------------------------------------------ results of the actions
OK == "ok"
ErrVoteAuth == "Authentication required to vote"
ErrNotFound == "Poll not found"
ErrInactive == "This poll is no longer active"
ErrEnded == "This poll has ended"
ErrAlreadyVoted == "You have already voted on this poll"
ErrVoteUnique == "Failed to cast vote: duplicate key value violates unique constraint"
ErrVoteForeignKey == "Failed to cast vote: violates foreign key constraint"
ErrCreateAuth == "Authentication required to create polls"
ErrCreateProfile == "Failed to create user profile"
ErrCreateOptions == "Failed to create poll options: violates foreign key constraint"
ErrUpdateAuth == "Authentication required to update polls"
ErrUpdateOwner == "You can only update your own polls"
ErrDeleteAuth == "Authentication required to delete polls"
ErrDeleteOwner == "You can only delete your own polls"
ErrEnv == "Missing Supabase environment variables for server actions. Please ensure NEXT_PUBLIC_SUPABASE_URL and SUPABASE_SERVICE_ROLE_KEY are set in your .env.local file."
ErrEnvNotConfigured == "Environment variables not configured. Please set up your .env.local file with Supabase credentials."
ErrVerifyProfile == "Failed to verify user profile"
ErrCreatePollFailed == "Failed to create poll: fetch failed"
ErrCreateOptionsFailed == "Failed to create poll options: fetch failed"
ErrVoteFailed == "Failed to cast vote: fetch failed"
ErrUpdateFailed == "Failed to update poll: fetch failed"
ErrReplaceOptionsFailed == "Failed to delete existing options: fetch failed"
ErrDeleteOptionsFailed == "Failed to delete poll options: fetch failed"
ErrDeleteVotesFailed == "Failed to delete votes: fetch failed"
ErrDeletePollFailed == "Failed to delete poll: fetch failed"
ErrFetchPolls == "Failed to fetch polls: fetch failed"
ErrFetchPoll == "Failed to fetch poll: fetch failed"
ErrFetchPollNoRow == "Failed to fetch poll: JSON object requested, multiple (or no) rows returned"
ErrFetchResults == "Failed to fetch poll results: fetch failed"
Pending == "pending"

VARIABLES
    profiles,      \* table public.profiles: rows [id, email]
    polls,         \* table public.polls: rows [id, creator_id, is_active, end_date]
    options,       \* table public.poll_options: rows [id, poll_id, entry, display_order]
    votes,         \* table public.votes: rows [id, poll_id, option_id, voter_id]
    nextPollId,    \* next value of uuid_generate_v4() for polls
    nextOptionId,  \* next value of uuid_generate_v4() for poll_options
    nextVoteId,    \* next value of uuid_generate_v4() for votes
    now,           \* the clock read by new Date()
    calls,         \* number of action calls started so far
    call,          \* per request handler: the action call it is running
    input,         \* validation layer: the value handed to validateCreatePoll
    validation,    \* validation layer: the result of validateCreatePoll
    rateLimitStore,\* middleware: the Map from key to {count, resetTime}
    copyStore,     \* the Map of the second copy of the security module
    rateResponse,  \* middleware: the response to the last request
    rateLog,       \* per quota: start of its window, calls and accepted calls in it
    clients,       \* middleware: the requests that arrive in this run
    storeOrder,    \* the keys of rateLimitStore in the Map's (insertion) order
    swept,         \* the last run of cleanupRateLimitStore: the Map before it, the time
    faults,        \* what fails in this run: nothing, calls to the store, the environment
    form           \* the last render of PollVotingComponent: its poll, time, isPollActive

storeVars == <<profiles, polls, options, votes, nextPollId, nextOptionId, nextVoteId>>
validationVars == <<input, validation>>
rateVars == <<rateLimitStore, copyStore, rateResponse, rateLog, clients, storeOrder, swept>>
vars == <<profiles, polls, options, votes, nextPollId, nextOptionId, nextVoteId,
          now, calls, call, input, validation,
          rateLimitStore, copyStore, rateResponse, rateLog, clients, storeOrder, swept,
          faults, form>>

\* ----------------------------------------------------------- store reads
PollRows(pollId) == {r \in polls : r.id = pollId}
OptionRows(pollId) == {o \in options : o.poll_id = pollId}
VoteRows(pollId) == {v \in votes : v.poll_id = pollId}
ProfileRows(userId) == {r \in profiles : r.id = userId}

\* supabase.from('votes').select('id').eq('poll_id', ..).eq('voter_id', ..).single()
Mutant_NoDuplicatePreCheck(pollId, userId) == {}
SelectExistingVote(pollId, userId) ==
    {v \in votes : v.poll_id = pollId /\ v.voter_id = userId}

\* ------------------------------------------------ constraints of public.votes
\* UNIQUE(poll_id, voter_id)
Mutant_NoUniqueConstraint(pollId, userId) == FALSE
VoteUniqueViolation(pollId, userId) ==
    \E v \in votes : v.poll_id = pollId /\ v.voter_id = userId

\* poll_id, option_id and voter_id are foreign keys
VoteForeignKeysOk(pollId, optionId, userId) ==
    /\ PollRows(pollId) # {}
    /\ \E o \in options : o.id = optionId
    /\ ProfileRows(userId) # {}

\* -------------------------------------------- ON DELETE CASCADE of the schema
\* votes.option_id REFERENCES poll_options(id) ON DELETE CASCADE
VotesAfterOptionDelete(vs, gone) == {v \in vs : v.option_id \notin {o.id : o \in gone}}

\* ------------------------------------------------------ voteOnPoll's guards
\* if (poll.end_date && new Date(poll.end_date) < new Date())
Mutant_EndGuardInverted(row, t) == row.end_date # {} /\ \E e \in row.end_date : e > t
PollHasEnded(row, t) == row.end_date # {} /\ \E e \in row.end_date : e < t

\* PollVotingComponent: poll.is_active && (!poll.end_date ||
\* new Date(poll.end_date) > new Date())
isPollActive(poll, t) == poll.is_active /\ (poll.end_date = {} \/ \A e \in poll.end_date : e > t)

NotRendered == [rendered |-> FALSE, poll |-> {}, at |-> 0, isPollActive |-> FALSE]

\* data.end_date ? new Date(data.end_date).toISOString() : null
ToISOString(end_date) == IF end_date = {} THEN {} ELSE {CHOOSE e \in end_date : TRUE}

\* ========================================================= validation layer
\* A string is kept as the lengths of its leading whitespace, of its body (from
\* the first to the last non-whitespace character) and of its trailing
\* whitespace; a string of whitespace only has body = 0 and trail = 0.
Str(lead, body, trail) == [lead |-> lead, body |-> body, trail |-> trail]
StrLen(s) == s.lead + s.body + s.trail
\* String.prototype.trim()
Trim(s) == Str(0, s.body, 0)

CandidateNameMin == 1
CandidateNameMax == 255
PartyNameMax == 100
TitleMin == 1
TitleMax == 500
OptionsMin == 2
OptionsMax == 10
ElectionTypes ==
    {"Presidential", "Gubernatorial", "Senatorial", "House of Reps", "State Assembly"}

\* z.string().min(lo).max(hi).trim(): zod runs the checks of a string schema in
\* the order they were chained, so min and max see the untrimmed string and
\* trim() only rewrites the value that is returned
StringMinMaxThenTrimOk(s, lo, hi) == StrLen(s) >= lo /\ StrLen(s) <= hi

\* pollOptionSchema: candidate_name z.string().min(1).max(255).trim(),
\* party_name z.string().max(100).trim().optional() (a set: {} is undefined)
PollOptionOk(o) ==
    /\ StringMinMaxThenTrimOk(o.candidate_name, CandidateNameMin, CandidateNameMax)
    /\ \A party \in o.party_name : StringMinMaxThenTrimOk(party, 0, PartyNameMax)
PollOptionParsed(o) ==
    [candidate_name |-> Trim(o.candidate_name),
     party_name |-> {Trim(party) : party \in o.party_name}]

\* createPollSchema (the optional fields description, state, lga, end_date and
\* candidate_image_url are absent from the values considered here)
CreatePollOk(data) ==
    /\ StringMinMaxThenTrimOk(data.title, TitleMin, TitleMax)
    /\ data.election_type \in ElectionTypes
    /\ Len(data.options) >= OptionsMin
    /\ Len(data.options) <= OptionsMax
    /\ \A i \in 1..Len(data.options) : PollOptionOk(data.options[i])
CreatePollParsed(data) ==
    [title |-> Trim(data.title), election_type |-> data.election_type,
     options |-> [i \in 1..Len(data.options) |-> PollOptionParsed(data.options[i])]]

NoInput == [title |-> Str(0, 0, 0), election_type |-> "", options |-> <<>>]
NotValidated == [ran |-> FALSE, success |-> FALSE, data |-> NoInput]

\* validateCreatePoll: { success: true, data } or { success: false, error }
validateCreatePoll(data) ==
    IF CreatePollOk(data)
    THEN [ran |-> TRUE, success |-> TRUE, data |-> CreatePollParsed(data)]
    ELSE [ran |-> TRUE, success |-> FALSE, data |-> NoInput]

\* the values handed to validateCreatePoll
MaxOptionsLen == 3
NameInputs ==
    {Str(0, 0, 0), Str(1, 0, 0), Str(0, 1, 0), Str(1, 1, 1),
     Str(0, CandidateNameMax, 0), Str(0, CandidateNameMax + 1, 0),
     Str(0, CandidateNameMax - 1, 2)}
OptionInputs == {[candidate_name |-> n, party_name |-> {}] : n \in NameInputs}
OptionSeqs(n) == [1..n -> OptionInputs]
TitleInputs ==
    {Str(0, 0, 0), Str(1, 0, 0), Str(0, 1, 0), Str(1, 1, 1), Str(0, TitleMax, 0),
     Str(0, TitleMax + 1, 0), Str(1, TitleMax, 0)}
PartyInputs == {{}, {Str(0, PartyNameMax, 0)}, {Str(0, PartyNameMax + 1, 0)}}
ElectionTypeInputs == ElectionTypes \cup {"Local Government"}
\* n entries that all name the same one-letter candidate
SameOption(n, party) == [i \in 1..n |-> [candidate_name |-> Str(0, 1, 0), party_name |-> party]]
LongOptionSeqs ==
    {SameOption(n, party) : n \in {OptionsMin, OptionsMax, OptionsMax + 1},
                            party \in PartyInputs}
ValidateInputs ==
    {[title |-> Str(0, 1, 0), election_type |-> "Presidential", options |-> os] :
        os \in UNION {OptionSeqs(n) : n \in 0..MaxOptionsLen}}
    \cup {[title |-> t, election_type |-> e, options |-> os] :
            t \in TitleInputs, e \in ElectionTypeInputs, os \in LongOptionSeqs}

\* ====================================================== rate limiting layer
\* lib/constants: RATE_LIMITS, keyed CREATE_POLL, VOTE, UPDATE_POLL,
\* DELETE_POLL, GENERAL
CreatePollRequests == 5
VoteRequests == 10
UpdatePollRequests == 10
DeletePollRequests == 3
GeneralRequests == 100
RateWindow == 60 * 1000
Limit(requests) == [requests |-> requests, window |-> RateWindow]
\* RATE_LIMITS[k]: a set with the entry of the table, empty (undefined) for a
\* property the object does not have
RATE_LIMITS(k) ==
    IF k = "CREATE_POLL" THEN {Limit(CreatePollRequests)}
    ELSE IF k = "VOTE" THEN {Limit(VoteRequests)}
    ELSE IF k = "UPDATE_POLL" THEN {Limit(UpdatePollRequests)}
    ELSE IF k = "DELETE_POLL" THEN {Limit(DeletePollRequests)}
    ELSE IF k = "GENERAL" THEN {Limit(GeneralRequests)}
    ELSE {}
\* the table of the second copy of the security module, keyed create_poll,
\* vote, update_poll, delete_poll, general
CopyRateLimits(k) ==
    IF k = "create_poll" THEN {Limit(CreatePollRequests)}
    ELSE IF k = "vote" THEN {Limit(VoteRequests)}
    ELSE IF k = "update_poll" THEN {Limit(UpdatePollRequests)}
    ELSE IF k = "delete_poll" THEN {Limit(DeletePollRequests)}
    ELSE IF k = "general" THEN {Limit(GeneralRequests)}
    ELSE {}

\* Math.ceil(a / b) for a >= 0, b > 0
Ceil(a, b) == (a + b - 1) \div b

\* rateLimitStore.set(key, record)
MapSet(store, key, record) ==
    [k \in DOMAIN store \cup {key} |-> IF k = key THEN record ELSE store[k]]

\* the Map keeps its keys in the order of their first set
KeysInOrder(order, keys) ==
    LET new == keys \ {order[i] : i \in 1..Len(order)}
    IN  IF new = {} THEN order ELSE Append(order, CHOOSE k \in new : TRUE)

\* ---------------------------------------------- cleanupRateLimitStore
\* the cap of the Map: DB_CONFIG.MAX_STORE_SIZE is 10000, the model runs the
\* code with a cap that its stores can exceed
MAX_STORE_SIZE == 3

NotSwept == [ran |-> FALSE, copy |-> FALSE, before |-> <<>>, order |-> <<>>, at |-> 0]

\* if (now > record.resetTime) entriesToDelete.push(key)
Expired(record, t) == t > record.resetTime

Restrict(store, keys) == [k \in keys |-> store[k]]
KeepInOrder(order, keys) == SelectSeq(order, LAMBDA k : k \in keys)

\* the position of the entry at index i of the Map in
\* entries.sort((a, b) => a[1].resetTime - b[1].resetTime): the sort is stable
SortedPosition(store, order, i) ==
    Cardinality({j \in 1..Len(order) :
                    \/ store[order[j]].resetTime < store[order[i]].resetTime
                    \/ /\ store[order[j]].resetTime = store[order[i]].resetTime
                       /\ j < i})

\* entries.slice(0, rateLimitStore.size - MAX_STORE_SIZE)
toRemove(store, order) ==
    {order[i] : i \in {j \in 1..Len(order) :
                          SortedPosition(store, order, j) < Len(order) - MAX_STORE_SIZE}}

\* cleanupRateLimitStore of lib/middleware/security at time t
cleanupRateLimitStore(store, order, t) ==
    LET live == {k \in DOMAIN store : ~Expired(store[k], t)}
        liveOrder == KeepInOrder(order, live)
        kept == IF Cardinality(live) > MAX_STORE_SIZE
                THEN live \ toRemove(Restrict(store, live), liveOrder)
                ELSE live
    IN  [store |-> Restrict(store, kept), order |-> KeepInOrder(order, kept)]

\* cleanupRateLimitStore of the second copy: the sweep only
CopyCleanupRateLimitStore(store, t) ==
    Restrict(store, {k \in DOMAIN store : ~Expired(store[k], t)})

\* the three tests of checkRateLimit
NoRecordOrExpired(store, key, t) == key \notin DOMAIN store \/ t > store[key].resetTime
Mutant_CeilingOffByOne(record, limit) == record.count > limit.requests
AtCeiling(record, limit) == record.count >= limit.requests
Mutant_LostIncrement(record) == record
Incremented(record) == [record EXCEPT !.count = @ + 1]

\* if (record.count >= limit.requests) return false: the Map is not written
Mutant_RejectionRestartsWindow(store, key, limit, t) ==
    MapSet(store, key, [store[key] EXCEPT !.resetTime = t + limit.window])
AfterRejection(store, key, limit, t) == store

\* checkRateLimit(key, limit) at time t: what it returns and the Map after it.
\* limit is a set: empty when the caller passed undefined, and then reading
\* limit.window or limit.requests throws a TypeError before the Map is written
checkRateLimit(store, key, limit, t) ==
    IF limit = {} THEN [returns |-> "TypeError", store |-> store]
    ELSE LET l == CHOOSE x \in limit : TRUE
         IN  IF NoRecordOrExpired(store, key, t)
             THEN [returns |-> "true",
                   store |-> MapSet(store, key, [count |-> 1, resetTime |-> t + l.window])]
             ELSE IF AtCeiling(store[key], l)
             THEN [returns |-> "false", store |-> AfterRejection(store, key, l, t)]
             ELSE [returns |-> "true",
                   store |-> MapSet(store, key, Incremented(store[key]))]

\* ------------------------------------------------------------- requests
\* pathname is kept as its sequence of segments, x-forwarded-for as its
\* sequence of entries; a header that is absent is "" (or <<>>)
Request(path, method, userId, forwarded, realIP, ip, origin, referer) ==
    [path |-> path, method |-> method, userId |-> userId, forwarded |-> forwarded,
     realIP |-> realIP, ip |-> ip, origin |-> origin, referer |-> referer]

\* 'a, b' entries carry the blanks around them: trim() removes them
Entry(lead, text) == [lead |-> lead, text |-> text]
TrimEntry(e) == e.text

\* getClientIP of lib/middleware/security
getClientIP(request) ==
    IF request.forwarded # <<>>
    THEN IF TrimEntry(request.forwarded[1]) = "" THEN "unknown"
         ELSE TrimEntry(request.forwarded[1])
    ELSE IF request.realIP # "" THEN request.realIP
    ELSE "unknown"

\* getClientIP of the second copy: no fallback for an empty first entry, and
\* request.ip before 'unknown'
CopyGetClientIP(request) ==
    IF request.forwarded # <<>> THEN TrimEntry(request.forwarded[1])
    ELSE IF request.realIP # "" THEN request.realIP
    ELSE IF request.ip # "" THEN request.ip
    ELSE "unknown"

\* `${userId}:${action}` or `${ip}:${action}`: the two parts of the key
RateKey(userId, ip, action) == IF userId # "" THEN <<userId, action>> ELSE <<ip, action>>

\* the responses of the middleware: NextResponse.next(), 429, 403, or the
\* exception that leaves it
Pass == "next"
TooManyRequests == "429"
Forbidden == "403"
Thrown == "TypeError"
NoResponse ==
    [handler |-> 0, status |-> "", retryAfter |-> {}, key |-> {}, at |-> 0,
     path |-> <<>>, method |-> ""]
Response(status, retryAfter, key) ==
    [handler |-> 0, status |-> status, retryAfter |-> retryAfter, key |-> key, at |-> 0,
     path |-> <<>>, method |-> ""]

\* the 429 branch shared by both copies of rateLimitMiddleware
RateLimitOutcome(checked, key, limit) ==
    IF checked.returns = "TypeError" THEN Response(Thrown, {}, {key})
    ELSE IF checked.returns = "false"
    THEN Response(TooManyRequests,
                  {Ceil((CHOOSE x \in limit : TRUE).window, 1000)}, {key})
    ELSE Response(Pass, {}, {key})

\* rateLimitMiddleware of lib/middleware/security: RATE_LIMITS[action] with
\* the action kind as property name
rateLimitMiddleware(store, request, action, userId, t) ==
    LET key == RateKey(userId, getClientIP(request), action)
        limit == RATE_LIMITS(action)
        checked == checkRateLimit(store, key, limit, t)
    IN  [response |-> RateLimitOutcome(checked, key, limit), store |-> checked.store]

\* rateLimitMiddleware of the second copy, with its own table
CopyRateLimitMiddleware(store, request, action, userId, t) ==
    LET key == RateKey(userId, CopyGetClientIP(request), action)
        limit == CopyRateLimits(action)
        checked == checkRateLimit(store, key, limit, t)
    IN  [response |-> RateLimitOutcome(checked, key, limit), store |-> checked.store]

\* validateCSRFToken: origin and referer against allowedOrigins
AllowedOrigins == {"http://localhost:3000", "https://yourdomain.com"}
\* referer.startsWith(allowed), for the referers of the requests considered
RefererStartsWith(referer, allowed) ==
    <<referer, allowed>> \in {<<"http://localhost:3000/polls", "http://localhost:3000">>}
validateCSRFToken(request) ==
    IF request.origin # "" /\ request.origin \notin AllowedOrigins THEN FALSE
    ELSE IF request.referer # ""
            /\ ~\E allowed \in AllowedOrigins : RefererStartsWith(request.referer, allowed)
    THEN FALSE
    ELSE TRUE

\* securityMiddleware: the rate limit, then the CSRF check
securityMiddleware(store, request, action, userId, t) ==
    LET limited == rateLimitMiddleware(store, request, action, userId, t)
    IN  IF limited.response.status # Pass THEN limited
        ELSE IF ~validateCSRFToken(request)
        THEN [response |-> Response(Forbidden, {}, limited.response.key),
              store |-> limited.store]
        ELSE limited

\* pathname.startsWith('/api/'), pathname.includes('/polls'),
\* pathname.includes('/vote'), on the segments of the path
StartsWithApi(path) == Len(path) >= 2 /\ path[1] = "api"
IncludesPolls(path) == \E i \in 1..Len(path) : path[i] \in {"polls"}
IncludesVote(path) == \E i \in 1..Len(path) : path[i] \in {"vote", "votes"}

getActionFromPath(pathname, method) ==
    IF IncludesPolls(pathname) /\ method = "POST" THEN "create_poll"
    ELSE IF IncludesVote(pathname) THEN "vote"
    ELSE IF IncludesPolls(pathname) /\ method = "PUT" THEN "update_poll"
    ELSE IF IncludesPolls(pathname) /\ method = "DELETE" THEN "delete_poll"
    ELSE "general"

\* middleware(request) of src/middleware.ts
middleware(store, request, t) ==
    IF StartsWithApi(request.path)
    THEN LET action == getActionFromPath(request.path, request.method)
             secured == securityMiddleware(store, request, action, request.userId, t)
         IN  secured
    ELSE [response |-> Response(Pass, {}, {}), store |-> store]

\* ----------------------------------------------------------- call records
Idle ==
    [op |-> "none", pc |-> "idle", pollId |-> 0, optionId |-> 0, userId |-> NoUser,
     nopts |-> 0, end_date |-> {}, result |-> Pending,
     hadVote |-> FALSE, seenPoll |-> {}, readAt |-> 0, seenAt |-> 0, polled |-> FALSE,
     dupChecked |-> FALSE, dupAtCheck |-> FALSE, uniqueRejected |-> FALSE,
     wrote |-> FALSE, newPoll |-> 0, midDelete |-> FALSE,
     storeCalls |-> 0, optionsError |-> Pending, data |-> {}, stub |-> FALSE,
     compensated |-> FALSE]

\* a request is taken by the first handler that is free
Free(p) == call[p].pc = "idle" /\ \A q \in Procs : q < p => call[q].pc # "idle"

\* a call with an empty userId is refused before its other arguments are
\* read: one such call per action is drawn
OneIfNoUser(userId, representative) == userId = NoUser => representative

\* return { success: true, ... }
Success(c, res) == [c EXCEPT !.pc = "done", !.result = res]

\* catch (error) { return { success: false, error: error.message } }
Mutant_Rethrow(c, res) == [c EXCEPT !.pc = "crashed"]
Failure(c, res) == [c EXCEPT !.pc = "done", !.result = res]

\* ------------------------------------------------------------------ faults
NoFault == "none"
StoreFault == "store"
EnvFault == "env"

\* a call to the store can fail (network, database) in a run with store faults
StoreCallFails == IF faults = StoreFault THEN {FALSE, TRUE} ELSE {FALSE}

\* createServerClient: SUPABASE_SERVICE_ROLE_KEY is not set
NoServiceKey == faults = EnvFault

\* the profiles table at the start: nobody, u1, or u1 and u2 have a profile
ProfileSeeds ==
    {{},
     {[id |-> "u1", email |-> "u1@example.com"]},
     {[id |-> "u1", email |-> "u1@example.com"], [id |-> "u2", email |-> "u2@example.com"]}}

\* polls.creator_id REFERENCES profiles(id) ON DELETE SET NULL
CreatorOk(creator, profs) == creator = NullCreator \/ \E r \in profs : r.id = creator

Init ==
    /\ \E creator \in {"u1", NullCreator}, active \in BOOLEAN, end \in EndDates :
          /\ profiles \in {profs \in ProfileSeeds : CreatorOk(creator, profs)}
          /\ polls = {[id |-> 1, creator_id |-> creator, is_active |-> active,
                       end_date |-> end]}
    /\ options = {[id |-> 1, poll_id |-> 1, entry |-> 0,
                   display_order |-> 1],
                  [id |-> 2, poll_id |-> 1, entry |-> 1,
                   display_order |-> 2]}
    /\ votes = {}
    /\ nextPollId = 2
    /\ nextOptionId = 3
    /\ nextVoteId = 1
    /\ now = 0
    /\ calls = 0
    /\ call = [p \in Procs |-> Idle]
    /\ input = NoInput
    /\ validation = NotValidated
    /\ rateLimitStore = <<>>
    /\ copyStore = <<>>
    /\ rateResponse = NoResponse
    /\ rateLog = <<>>
    /\ storeOrder = <<>>
    /\ swept = NotSwept
    /\ clients = {}
    /\ faults = NoFault
    /\ form = NotRendered

\* the clock advances between any two steps
Tick ==
    /\ now < MaxTime
    /\ now' = now + 1
    /\ UNCHANGED <<storeVars, calls, call, validationVars, rateVars, faults, form>>

\* the handler has returned its result to the caller and takes the next request
Return(p) ==
    /\ call[p].pc = "done"
    /\ call' = [call EXCEPT ![p] = Idle]
    /\ UNCHANGED <<storeVars, now, calls, validationVars, rateVars, faults, form>>

\* ================================================================ voteOnPoll
\* lines 281-296: the call starts (createServerClient, then an empty userId
\* throws before any store call) and the store runs the select of is_active,
\* end_date; the rows it read travel back to the handler
VoteSelectPoll(p) ==
    /\ Free(p)
    /\ calls < MaxCalls
    /\ calls' = calls + 1
    /\ \E pollId \in PollIdInputs, optionId \in OptionIdInputs, userId \in UserInputs,
          fails \in StoreCallFails :
          /\ OneIfNoUser(userId, pollId = 1 /\ optionId = 1 /\ ~fails)
          /\ LET rows == PollRows(pollId)
                  c == [Idle EXCEPT !.op = "vote", !.pollId = pollId, !.optionId = optionId,
                                    !.userId = userId,
                                    !.hadVote = (\E v \in votes : v.poll_id = pollId
                                                                 /\ v.voter_id = userId)]
                  asked == [c EXCEPT !.storeCalls = 1, !.polled = TRUE, !.readAt = now,
                                     !.pc = "checkStatus"]
                  r == IF NoServiceKey THEN Failure(c, ErrEnv)
                       ELSE IF userId = NoUser THEN Failure(c, ErrVoteAuth)
                       ELSE IF fails THEN asked
                       ELSE [asked EXCEPT !.seenPoll = rows]
              IN  call' = [call EXCEPT ![p] = r]
    /\ UNCHANGED <<storeVars, now, validationVars, rateVars, faults, form>>

\* lines 298-310: the handler resumes with the result of the select, at the
\* clock of that moment: pollError || !poll, then the guards on the row it
\* was given, with new Date() read now
VoteCheckStatus(p) ==
    /\ call[p].op = "vote" /\ call[p].pc = "checkStatus"
    /\ LET poll == call[p].seenPoll
           seen == [call[p] EXCEPT !.seenAt = now]
           r == IF poll = {} THEN Failure(seen, ErrNotFound)
                ELSE LET row == CHOOSE x \in poll : TRUE
                     IN  IF ~row.is_active THEN Failure(seen, ErrInactive)
                         ELSE IF PollHasEnded(row, now) THEN Failure(seen, ErrEnded)
                         ELSE [seen EXCEPT !.pc = "selectVote"]
       IN  call' = [call EXCEPT ![p] = r]
    /\ UNCHANGED <<storeVars, now, calls, validationVars, rateVars, faults, form>>

\* lines 312-322: the duplicate pre-check (the error of the select is not
\* read: a failed select looks like no vote)
VoteSelectVote(p) ==
    /\ call[p].op = "vote" /\ call[p].pc = "selectVote"
    /\ \E fails \in StoreCallFails :
          LET existingVote == IF fails THEN {}
                              ELSE SelectExistingVote(call[p].pollId, call[p].userId)
              seen == [call[p] EXCEPT !.storeCalls = @ + 1, !.dupChecked = TRUE,
                                      !.dupAtCheck = (\E v \in votes :
                                                         /\ v.poll_id = call[p].pollId
                                                         /\ v.voter_id = call[p].userId)]
          IN  call' = [call EXCEPT ![p] = IF existingVote # {}
                                          THEN Failure(seen, ErrAlreadyVoted)
                                          ELSE [seen EXCEPT !.pc = "insertVote"]]
    /\ UNCHANGED <<storeVars, now, calls, validationVars, rateVars, faults, form>>

\* a deletePoll of the poll has run its delete of the votes and not yet its
\* delete of the poll row
DeletingPastVotes(pollId) ==
    \E q \in Procs : /\ call[q].op = "delete" /\ call[q].pollId = pollId
                     /\ call[q].pc = "deletePoll"

\* lines 324-339: insert into votes, subject to the table's constraints
VoteInsert(p) ==
    /\ call[p].op = "vote" /\ call[p].pc = "insertVote"
    /\ \E fails \in StoreCallFails :
          LET c == [call[p] EXCEPT !.storeCalls = @ + 1]
          IN  IF fails
              THEN /\ call' = [call EXCEPT ![p] = Failure(c, ErrVoteFailed)]
                   /\ UNCHANGED <<votes, nextVoteId>>
              ELSE IF VoteUniqueViolation(c.pollId, c.userId)
              THEN /\ call' = [call EXCEPT ![p] = [Failure(c, ErrVoteUnique)
                                                     EXCEPT !.uniqueRejected = TRUE]]
                   /\ UNCHANGED <<votes, nextVoteId>>
              ELSE IF ~VoteForeignKeysOk(c.pollId, c.optionId, c.userId)
              THEN /\ call' = [call EXCEPT ![p] = Failure(c, ErrVoteForeignKey)]
                   /\ UNCHANGED <<votes, nextVoteId>>
              ELSE /\ votes' = votes \cup {[id |-> nextVoteId, poll_id |-> c.pollId,
                                            option_id |-> c.optionId,
                                            voter_id |-> c.userId]}
                   /\ nextVoteId' = nextVoteId + 1
                   /\ call' = [call EXCEPT ![p] =
                                  [Success(c, OK) EXCEPT
                                      !.wrote = TRUE,
                                      !.midDelete = DeletingPastVotes(c.pollId)]]
    /\ UNCHANGED <<profiles, polls, options, nextPollId, nextOptionId, now, calls,
                   validationVars, rateVars, faults, form>>

\* ================================================================ createPoll
\* the rows inserted for data.options: the row of the entry at index (which
\* stands for the entry's candidate fields) has display_order = index + 1
NewOptionRows(pollId, nopts, firstId) ==
    {[id |-> firstId + index, poll_id |-> pollId, entry |-> index,
      display_order |-> index + 1] : index \in 0..(nopts - 1)}

\* constraints of public.profiles: PRIMARY KEY (id), UNIQUE (email)
Mutant_NoProfileConstraints(row) == TRUE
ProfileInsertOk(row) ==
    /\ ~\E r \in profiles : r.id = row.id
    /\ ~\E r \in profiles : r.email = row.email

\* lines 58-78: the call starts; select the creator's profile
CreateSelectProfile(p) ==
    /\ Free(p)
    /\ calls < MaxCalls
    /\ calls' = calls + 1
    /\ \E userId \in UserInputs, nopts \in OptionCounts, end \in EndDates,
          fails \in StoreCallFails :
          /\ OneIfNoUser(userId, nopts = 0 /\ end = {} /\ ~fails)
          /\ LET c == [Idle EXCEPT !.op = "create", !.userId = userId, !.nopts = nopts,
                                !.end_date = end]
              asked == [c EXCEPT !.storeCalls = 1]
              r == IF NoServiceKey THEN Failure(c, ErrEnv)
                   ELSE IF userId = NoUser THEN Failure(c, ErrCreateAuth)
                   ELSE IF fails THEN Failure(asked, ErrVerifyProfile)
                   ELSE IF ProfileRows(userId) = {} THEN [asked EXCEPT !.pc = "insertProfile"]
                   ELSE [asked EXCEPT !.pc = "insertPoll"]
            IN  call' = [call EXCEPT ![p] = r]
    /\ UNCHANGED <<storeVars, now, validationVars, rateVars, faults, form>>

\* lines 80-95: insert the stub profile {id: userId, email: ''}
CreateInsertProfile(p) ==
    /\ call[p].op = "create" /\ call[p].pc = "insertProfile"
    /\ \E fails \in StoreCallFails :
          LET row == [id |-> call[p].userId, email |-> ""]
              c == [call[p] EXCEPT !.storeCalls = @ + 1]
          IN  IF ~fails /\ ProfileInsertOk(row)
              THEN /\ profiles' = profiles \cup {row}
                   /\ call' = [call EXCEPT ![p] = [c EXCEPT !.pc = "insertPoll",
                                                            !.wrote = TRUE,
                                                            !.stub = TRUE]]
              ELSE /\ call' = [call EXCEPT ![p] = Failure(c, ErrCreateProfile)]
                   /\ UNCHANGED profiles
    /\ UNCHANGED <<polls, options, votes, nextPollId, nextOptionId, nextVoteId, now, calls,
                   validationVars, rateVars, faults, form>>

\* lines 97-117: insert the poll row (is_active DEFAULT true)
CreateInsertPoll(p) ==
    /\ call[p].op = "create" /\ call[p].pc = "insertPoll"
    /\ \E fails \in StoreCallFails :
          LET c == [call[p] EXCEPT !.storeCalls = @ + 1]
              made == [c EXCEPT !.wrote = TRUE, !.newPoll = nextPollId]
          IN  IF fails
              THEN /\ call' = [call EXCEPT ![p] = Failure(c, ErrCreatePollFailed)]
                   /\ UNCHANGED <<polls, nextPollId>>
              ELSE /\ polls' = polls \cup {[id |-> nextPollId, creator_id |-> c.userId,
                                            is_active |-> TRUE,
                                            end_date |-> ToISOString(c.end_date)]}
                   /\ nextPollId' = nextPollId + 1
                   /\ call' = [call EXCEPT ![p] = IF c.nopts > 0
                                                  THEN [made EXCEPT !.pc = "insertOptions"]
                                                  ELSE Success(made, OK)]
    /\ UNCHANGED <<profiles, options, votes, nextOptionId, nextVoteId, now, calls,
                   validationVars, rateVars, faults, form>>

\* lines 118-130, 138-140: insert the option rows (poll_id is a foreign key)
CreateInsertOptions(p) ==
    /\ call[p].op = "create" /\ call[p].pc = "insertOptions"
    /\ \E fails \in StoreCallFails :
          LET c == [call[p] EXCEPT !.storeCalls = @ + 1]
          IN  IF fails
              THEN /\ call' = [call EXCEPT ![p] = [c EXCEPT !.pc = "compensate",
                                      !.optionsError = ErrCreateOptionsFailed]]
                   /\ UNCHANGED <<options, nextOptionId>>
              ELSE IF PollRows(c.newPoll) = {}
              THEN /\ call' = [call EXCEPT ![p] = [c EXCEPT !.pc = "compensate",
                                      !.optionsError = ErrCreateOptions]]
                   /\ UNCHANGED <<options, nextOptionId>>
              ELSE /\ options' = options \cup NewOptionRows(c.newPoll, c.nopts, nextOptionId)
                   /\ nextOptionId' = nextOptionId + c.nopts
                   /\ call' = [call EXCEPT ![p] = Success(c, OK)]
    /\ UNCHANGED <<profiles, polls, votes, nextPollId, nextVoteId, now, calls,
                   validationVars, rateVars, faults, form>>

\* deleting a polls row cascades to its options, to the votes on those
\* options and to the votes on the poll
Mutant_PollRowKept(pollId) == polls
PollsAfterDelete(pollId) == {r \in polls : r.id # pollId}
OptionsAfterPollDelete(pollId) == {o \in options : o.poll_id # pollId}
Mutant_NoVoteCascade(pollId) == votes
VotesAfterPollDelete(pollId) ==
    {v \in VotesAfterOptionDelete(votes, OptionRows(pollId)) : v.poll_id # pollId}

\* lines 130-135: the compensating delete of the poll row (its error is not
\* read), then the error of the options insert is thrown
CreateCompensate(p) ==
    /\ call[p].op = "create" /\ call[p].pc = "compensate"
    /\ \E fails \in StoreCallFails :
          LET c == [call[p] EXCEPT !.storeCalls = @ + 1]
          IN  /\ IF fails
                 THEN UNCHANGED <<polls, options, votes>>
                 ELSE /\ polls' = PollsAfterDelete(c.newPoll)
                      /\ options' = OptionsAfterPollDelete(c.newPoll)
                      /\ votes' = VotesAfterPollDelete(c.newPoll)
              /\ call' = [call EXCEPT ![p] =
                             Failure([c EXCEPT !.compensated = ~fails], c.optionsError)]
    /\ UNCHANGED <<profiles, nextPollId, nextOptionId, nextVoteId, now, calls,
                   validationVars, rateVars, faults, form>>

\* ================================================================ updatePoll
\* if (poll.creator_id !== userId): the ownership guard of updatePoll and
\* deletePoll (a null creator_id differs from every userId)
Mutant_NullCreatorIsAnyones(row, userId) == row.creator_id \notin {userId, NullCreator}
NotOwner(row, userId) == row.creator_id # userId

\* lines 349-371: the call starts; select creator_id; the ownership guard
UpdateSelectPoll(p) ==
    /\ Free(p)
    /\ calls < MaxCalls
    /\ calls' = calls + 1
    /\ \E pollId \in PollIdInputs, userId \in UserInputs, nopts \in OptionCounts,
          end \in EndDates, fails \in StoreCallFails :
          /\ OneIfNoUser(userId, pollId = 1 /\ nopts = 0 /\ end = {} /\ ~fails)
          /\ LET rows == PollRows(pollId)
              c == [Idle EXCEPT !.op = "update", !.pollId = pollId, !.userId = userId,
                                !.nopts = nopts, !.end_date = end]
              asked == [c EXCEPT !.storeCalls = 1, !.polled = TRUE]
              seen == [asked EXCEPT !.seenPoll = {[creator_id |-> x.creator_id] : x \in rows}]
              r == IF NoServiceKey THEN Failure(c, ErrEnv)
                   ELSE IF userId = NoUser THEN Failure(c, ErrUpdateAuth)
                   ELSE IF fails THEN Failure(asked, ErrNotFound)
                   ELSE IF rows = {} THEN Failure(seen, ErrNotFound)
                   ELSE IF NotOwner(CHOOSE x \in rows : TRUE, userId)
                   THEN Failure(seen, ErrUpdateOwner)
                   ELSE [seen EXCEPT !.pc = "updatePoll"]
            IN  call' = [call EXCEPT ![p] = r]
    /\ UNCHANGED <<storeVars, now, validationVars, rateVars, faults, form>>

\* lines 373-388: update the poll row (no row matches if it was deleted meanwhile)
UpdatePollRow(p) ==
    /\ call[p].op = "update" /\ call[p].pc = "updatePoll"
    /\ \E fails \in StoreCallFails :
          LET c == [call[p] EXCEPT !.storeCalls = @ + 1]
          IN  IF fails
              THEN /\ call' = [call EXCEPT ![p] = Failure(c, ErrUpdateFailed)]
                   /\ UNCHANGED polls
              ELSE /\ polls' = {IF r.id = c.pollId
                                THEN [r EXCEPT !.end_date = ToISOString(c.end_date)]
                                ELSE r : r \in polls}
                   /\ call' = [call EXCEPT ![p] = [c EXCEPT !.pc = "deleteOptions",
                                                            !.wrote = TRUE]]
    /\ UNCHANGED <<profiles, options, votes, nextPollId, nextOptionId, nextVoteId, now, calls,
                   validationVars, rateVars, faults, form>>

\* lines 390-398: delete the poll's options; the votes on them go by cascade
UpdateDeleteOptions(p) ==
    /\ call[p].op = "update" /\ call[p].pc = "deleteOptions"
    /\ \E fails \in StoreCallFails :
          LET c == [call[p] EXCEPT !.storeCalls = @ + 1]
          IN  IF fails
              THEN /\ call' = [call EXCEPT ![p] = Failure(c, ErrReplaceOptionsFailed)]
                   /\ UNCHANGED <<options, votes>>
              ELSE /\ options' = options \ OptionRows(c.pollId)
                   /\ votes' = VotesAfterOptionDelete(votes, OptionRows(c.pollId))
                   /\ call' = [call EXCEPT ![p] = IF c.nopts > 0
                                                  THEN [c EXCEPT !.pc = "insertOptions"]
                                                  ELSE Success(c, OK)]
    /\ UNCHANGED <<profiles, polls, nextPollId, nextOptionId, nextVoteId, now, calls,
                   validationVars, rateVars, faults, form>>

\* lines 400-421: insert the new option rows (poll_id is a foreign key)
UpdateInsertOptions(p) ==
    /\ call[p].op = "update" /\ call[p].pc = "insertOptions"
    /\ \E fails \in StoreCallFails :
          LET c == [call[p] EXCEPT !.storeCalls = @ + 1]
          IN  IF fails
              THEN /\ call' = [call EXCEPT ![p] = Failure(c, ErrCreateOptionsFailed)]
                   /\ UNCHANGED <<options, nextOptionId>>
              ELSE IF PollRows(c.pollId) = {}
              THEN /\ call' = [call EXCEPT ![p] = Failure(c, ErrCreateOptions)]
                   /\ UNCHANGED <<options, nextOptionId>>
              ELSE /\ options' = options \cup NewOptionRows(c.pollId, c.nopts, nextOptionId)
                   /\ nextOptionId' = nextOptionId + c.nopts
                   /\ call' = [call EXCEPT ![p] = Success(c, OK)]
    /\ UNCHANGED <<profiles, polls, votes, nextPollId, nextVoteId, now, calls,
                   validationVars, rateVars, faults, form>>

\* ================================================================ deletePoll
\* lines 431-453: the call starts; select creator_id; the ownership guard
DeleteSelectPoll(p) ==
    /\ Free(p)
    /\ calls < MaxCalls
    /\ calls' = calls + 1
    /\ \E pollId \in PollIdInputs, userId \in UserInputs, fails \in StoreCallFails :
          /\ OneIfNoUser(userId, pollId = 1 /\ ~fails)
          /\ LET rows == PollRows(pollId)
              c == [Idle EXCEPT !.op = "delete", !.pollId = pollId, !.userId = userId]
              asked == [c EXCEPT !.storeCalls = 1, !.polled = TRUE]
              seen == [asked EXCEPT !.seenPoll = {[creator_id |-> x.creator_id] : x \in rows}]
              r == IF NoServiceKey THEN Failure(c, ErrEnv)
                   ELSE IF userId = NoUser THEN Failure(c, ErrDeleteAuth)
                   ELSE IF fails THEN Failure(asked, ErrNotFound)
                   ELSE IF rows = {} THEN Failure(seen, ErrNotFound)
                   ELSE IF NotOwner(CHOOSE x \in rows : TRUE, userId)
                   THEN Failure(seen, ErrDeleteOwner)
                   ELSE [seen EXCEPT !.pc = "deleteOptions"]
            IN  call' = [call EXCEPT ![p] = r]
    /\ UNCHANGED <<storeVars, now, validationVars, rateVars, faults, form>>

\* lines 455-463: delete the poll's options; the votes on them go by cascade
DeleteOptions(p) ==
    /\ call[p].op = "delete" /\ call[p].pc = "deleteOptions"
    /\ \E fails \in StoreCallFails :
          LET c == [call[p] EXCEPT !.storeCalls = @ + 1]
          IN  IF fails
              THEN /\ call' = [call EXCEPT ![p] = Failure(c, ErrDeleteOptionsFailed)]
                   /\ UNCHANGED <<options, votes>>
              ELSE /\ options' = options \ OptionRows(c.pollId)
                   /\ votes' = VotesAfterOptionDelete(votes, OptionRows(c.pollId))
                   /\ call' = [call EXCEPT ![p] = [c EXCEPT !.pc = "deleteVotes",
                                                            !.wrote = TRUE]]
    /\ UNCHANGED <<profiles, polls, nextPollId, nextOptionId, nextVoteId, now, calls,
                   validationVars, rateVars, faults, form>>

\* lines 465-473: delete the poll's votes
DeleteVotes(p) ==
    /\ call[p].op = "delete" /\ call[p].pc = "deleteVotes"
    /\ \E fails \in StoreCallFails :
          LET c == [call[p] EXCEPT !.storeCalls = @ + 1]
          IN  IF fails
              THEN /\ call' = [call EXCEPT ![p] = Failure(c, ErrDeleteVotesFailed)]
                   /\ UNCHANGED votes
              ELSE /\ votes' = votes \ VoteRows(c.pollId)
                   /\ call' = [call EXCEPT ![p] = [c EXCEPT !.pc = "deletePoll"]]
    /\ UNCHANGED <<profiles, polls, options, nextPollId, nextOptionId, nextVoteId, now, calls,
                   validationVars, rateVars, faults, form>>

\* lines 475-486: delete the poll row, with its cascades
DeletePollRow(p) ==
    /\ call[p].op = "delete" /\ call[p].pc = "deletePoll"
    /\ \E fails \in StoreCallFails :
          LET c == [call[p] EXCEPT !.storeCalls = @ + 1]
          IN  IF fails
              THEN /\ call' = [call EXCEPT ![p] = Failure(c, ErrDeletePollFailed)]
                   /\ UNCHANGED <<polls, options, votes>>
              ELSE /\ polls' = PollsAfterDelete(c.pollId)
                   /\ options' = OptionsAfterPollDelete(c.pollId)
                   /\ votes' = VotesAfterPollDelete(c.pollId)
                   /\ call' = [call EXCEPT ![p] = Success(c, OK)]
    /\ UNCHANGED <<profiles, nextPollId, nextOptionId, nextVoteId, now, calls,
                   validationVars, rateVars, faults, form>>

\* ============================================================== the results
\* ROUND(x, 2) of x = count * 100.0 / total, in hundredths of a percent
\* (halves are rounded away from zero)
Mutant_Truncated(count, total) == (count * 10000) \div total
RoundedPercentage(count, total) == (2 * count * 10000 + total) \div (2 * total)

\* VIEW option_vote_counts: one row per option; votes are joined on option_id,
\* the total of the poll is the number of votes with the option's poll_id
option_vote_counts ==
    {[option_id |-> po.id, poll_id |-> po.poll_id,
      vote_count |-> Cardinality({v \in votes : v.option_id = po.id}),
      vote_percentage |->
          LET total == Cardinality({v \in votes : v.poll_id = po.poll_id})
          IN  IF total > 0
              THEN RoundedPercentage(Cardinality({v \in votes : v.option_id = po.id}), total)
              ELSE 0] : po \in options}

\* FUNCTION get_poll_results(poll_uuid): the rows of the poll (their order, by
\* vote_count, is left out)
get_poll_results(poll_uuid) ==
    {[option_id |-> r.option_id, vote_count |-> r.vote_count,
      vote_percentage |-> r.vote_percentage] :
        r \in {x \in option_vote_counts : x.poll_id = poll_uuid}}

\* getPollResults: one rpc call
GetPollResults(p) ==
    /\ Free(p)
    /\ calls < MaxCalls
    /\ calls' = calls + 1
    /\ \E pollId \in PollIdInputs, fails \in StoreCallFails :
          LET c == [Idle EXCEPT !.op = "results", !.pollId = pollId]
              asked == [c EXCEPT !.storeCalls = 1]
              r == IF NoServiceKey THEN Failure(c, ErrEnv)
                   ELSE IF fails THEN Failure(asked, ErrFetchResults)
                   ELSE Success([asked EXCEPT !.data = get_poll_results(pollId)], OK)
          IN  call' = [call EXCEPT ![p] = r]
    /\ UNCHANGED <<storeVars, now, validationVars, rateVars, faults, form>>

\* ================================================== getPolls and getPollById
\* the active polls, each with its options and its creator's profile
getPolls(p) ==
    /\ Free(p)
    /\ calls < MaxCalls
    /\ calls' = calls + 1
    /\ \E fails \in StoreCallFails :
          LET c == [Idle EXCEPT !.op = "getPolls"]
              asked == [c EXCEPT !.storeCalls = 1]
              rows == {[poll |-> r, poll_options |-> OptionRows(r.id),
                        profiles |-> ProfileRows(r.creator_id)] :
                          r \in {x \in polls : x.is_active}}
              r == IF NoServiceKey THEN Failure(c, ErrEnvNotConfigured)
                   ELSE IF fails THEN Failure(asked, ErrFetchPolls)
                   ELSE Success([asked EXCEPT !.data = rows], OK)
          IN  call' = [call EXCEPT ![p] = r]
    /\ UNCHANGED <<storeVars, now, validationVars, rateVars, faults, form>>

\* the poll with its options; .single() makes a missing row an error
getPollById(p) ==
    /\ Free(p)
    /\ calls < MaxCalls
    /\ calls' = calls + 1
    /\ \E id \in PollIdInputs, fails \in StoreCallFails :
          LET c == [Idle EXCEPT !.op = "getPollById", !.pollId = id]
              asked == [c EXCEPT !.storeCalls = 1]
              rows == {[poll |-> r, poll_options |-> OptionRows(r.id)] : r \in PollRows(id)}
              r == IF NoServiceKey THEN Failure(c, ErrEnv)
                   ELSE IF fails THEN Failure(asked, ErrFetchPoll)
                   ELSE IF rows = {} THEN Failure(asked, ErrFetchPollNoRow)
                   ELSE Success([asked EXCEPT !.data = rows], OK)
          IN  call' = [call EXCEPT ![p] = r]
    /\ UNCHANGED <<storeVars, now, validationVars, rateVars, faults, form>>

Next ==
    \/ Tick
    \/ \E p \in Procs : Return(p)
    \/ \E p \in Procs : VoteSelectPoll(p)
    \/ \E p \in Procs : VoteCheckStatus(p)
    \/ \E p \in Procs : VoteSelectVote(p)
    \/ \E p \in Procs : VoteInsert(p)
    \/ \E p \in Procs : CreateSelectProfile(p)
    \/ \E p \in Procs : CreateInsertProfile(p)
    \/ \E p \in Procs : CreateInsertPoll(p)
    \/ \E p \in Procs : CreateInsertOptions(p)
    \/ \E p \in Procs : CreateCompensate(p)
    \/ \E p \in Procs : UpdateSelectPoll(p)
    \/ \E p \in Procs : UpdatePollRow(p)
    \/ \E p \in Procs : UpdateDeleteOptions(p)
    \/ \E p \in Procs : UpdateInsertOptions(p)
    \/ \E p \in Procs : DeleteSelectPoll(p)
    \/ \E p \in Procs : DeleteOptions(p)
    \/ \E p \in Procs : DeleteVotes(p)
    \/ \E p \in Procs : DeletePollRow(p)
    \/ \E p \in Procs : GetPollResults(p)
    \/ \E p \in Procs : getPolls(p)
    \/ \E p \in Procs : getPollById(p)

Spec == Init /\ [][Next]_vars

\* ---------------------------- the voting form and voteOnPoll on one poll
\* PollVotingComponent renders the poll it was given
Render ==
    /\ \E poll \in polls :
          form' = [rendered |-> TRUE, poll |-> {poll}, at |-> now,
                   isPollActive |-> isPollActive(poll, now)]
    /\ UNCHANGED <<storeVars, now, calls, call, validationVars, rateVars, faults>>

NextForm ==
    \/ Tick
    \/ Render
    \/ \E p \in Procs : Return(p)
    \/ \E p \in Procs : VoteSelectPoll(p)
    \/ \E p \in Procs : VoteCheckStatus(p)
    \/ \E p \in Procs : VoteSelectVote(p)
    \/ \E p \in Procs : VoteInsert(p)

SpecForm == Init /\ [][NextForm]_vars

\* ------------------------------------- voteOnPoll calls on their own
NextVote ==
    \/ Tick
    \/ \E p \in Procs : Return(p)
    \/ \E p \in Procs : VoteSelectPoll(p)
    \/ \E p \in Procs : VoteCheckStatus(p)
    \/ \E p \in Procs : VoteSelectVote(p)
    \/ \E p \in Procs : VoteInsert(p)

SpecVote == Init /\ [][NextVote]_vars

\* ------------------- deletePoll and voteOnPoll calls with two polls in store
\* the state after u1 created a second poll with one option
InitDelete ==
    /\ profiles = {[id |-> "u1", email |-> "u1@example.com"],
                   [id |-> "u2", email |-> "u2@example.com"]}
    /\ \E active \in BOOLEAN, end \in EndDates :
          polls = {[id |-> 1, creator_id |-> "u1", is_active |-> active, end_date |-> end],
                   [id |-> 2, creator_id |-> "u1", is_active |-> TRUE, end_date |-> {}]}
    /\ options = {[id |-> 1, poll_id |-> 1, entry |-> 0,
                   display_order |-> 1],
                  [id |-> 2, poll_id |-> 1, entry |-> 1,
                   display_order |-> 2],
                  [id |-> 3, poll_id |-> 2, entry |-> 0,
                   display_order |-> 1]}
    /\ votes = {}
    /\ nextPollId = 3
    /\ nextOptionId = 4
    /\ nextVoteId = 1
    /\ now = 0
    /\ calls = 0
    /\ call = [p \in Procs |-> Idle]
    /\ input = NoInput
    /\ validation = NotValidated
    /\ rateLimitStore = <<>>
    /\ copyStore = <<>>
    /\ rateResponse = NoResponse
    /\ rateLog = <<>>
    /\ storeOrder = <<>>
    /\ swept = NotSwept
    /\ clients = {}
    /\ faults = NoFault
    /\ form = NotRendered

NextDelete ==
    \/ Tick
    \/ \E p \in Procs : Return(p)
    \/ \E p \in Procs : VoteSelectPoll(p)
    \/ \E p \in Procs : VoteCheckStatus(p)
    \/ \E p \in Procs : VoteSelectVote(p)
    \/ \E p \in Procs : VoteInsert(p)
    \/ \E p \in Procs : DeleteSelectPoll(p)
    \/ \E p \in Procs : DeleteOptions(p)
    \/ \E p \in Procs : DeleteVotes(p)
    \/ \E p \in Procs : DeletePollRow(p)

SpecDelete == InitDelete /\ [][NextDelete]_vars

\* ----------------------------- updatePoll and deletePoll calls on their own
NextOwner ==
    \/ Tick
    \/ \E p \in Procs : Return(p)
    \/ \E p \in Procs : UpdateSelectPoll(p)
    \/ \E p \in Procs : UpdatePollRow(p)
    \/ \E p \in Procs : UpdateDeleteOptions(p)
    \/ \E p \in Procs : UpdateInsertOptions(p)
    \/ \E p \in Procs : DeleteSelectPoll(p)
    \/ \E p \in Procs : DeleteOptions(p)
    \/ \E p \in Procs : DeleteVotes(p)
    \/ \E p \in Procs : DeletePollRow(p)

SpecOwner == Init /\ [][NextOwner]_vars

\* ------------------------------------------ createPoll calls on their own
\* the store is sound or at fault in the run
InitCreate ==
    /\ \E creator \in {"u1", NullCreator} :
          /\ profiles \in {profs \in ProfileSeeds : CreatorOk(creator, profs)}
          /\ polls = {[id |-> 1, creator_id |-> creator, is_active |-> TRUE,
                       end_date |-> {}]}
    /\ options = {[id |-> 1, poll_id |-> 1, entry |-> 0,
                   display_order |-> 1],
                  [id |-> 2, poll_id |-> 1, entry |-> 1,
                   display_order |-> 2]}
    /\ votes = {}
    /\ nextPollId = 2
    /\ nextOptionId = 3
    /\ nextVoteId = 1
    /\ now = 0
    /\ calls = 0
    /\ call = [p \in Procs |-> Idle]
    /\ input = NoInput
    /\ validation = NotValidated
    /\ rateLimitStore = <<>>
    /\ copyStore = <<>>
    /\ rateResponse = NoResponse
    /\ rateLog = <<>>
    /\ storeOrder = <<>>
    /\ swept = NotSwept
    /\ clients = {}
    /\ faults \in {NoFault, StoreFault}
    /\ form = NotRendered

NextCreate ==
    \/ \E p \in Procs : Return(p)
    \/ \E p \in Procs : CreateSelectProfile(p)
    \/ \E p \in Procs : CreateInsertProfile(p)
    \/ \E p \in Procs : CreateInsertPoll(p)
    \/ \E p \in Procs : CreateInsertOptions(p)
    \/ \E p \in Procs : CreateCompensate(p)

SpecCreate == InitCreate /\ [][NextCreate]_vars

\* ------------------------------------------- getPollResults on stored votes
Voters == {"u1", "u2", "u3"}

\* the votes table when voter u has voted for option choice[u] of poll 1, or
\* has not voted (choice[u] = 0) (the
\* table does not tie a vote's option to the vote's poll: option 3 is poll 2's)
VotesOf(choice) ==
    {[id |-> IF u = "u1" THEN 1 ELSE IF u = "u2" THEN 2 ELSE 3,
      poll_id |-> 1, option_id |-> choice[u], voter_id |-> u] :
        u \in {x \in Voters : choice[x] # 0}}

InitResults ==
    /\ profiles = {[id |-> u, email |-> u] : u \in Voters}
    /\ polls = {[id |-> 1, creator_id |-> "u1", is_active |-> TRUE, end_date |-> {}],
                [id |-> 2, creator_id |-> "u1", is_active |-> TRUE, end_date |-> {}]}
    /\ options = {[id |-> 1, poll_id |-> 1, entry |-> 0,
                   display_order |-> 1],
                  [id |-> 2, poll_id |-> 1, entry |-> 1,
                   display_order |-> 2],
                  [id |-> 3, poll_id |-> 2, entry |-> 0,
                   display_order |-> 1]}
    /\ \E choice \in [Voters -> {0} \cup OptionIdInputs] : votes = VotesOf(choice)
    /\ nextPollId = 3
    /\ nextOptionId = 4
    /\ nextVoteId = 4
    /\ now = 0
    /\ calls = 0
    /\ call = [p \in Procs |-> Idle]
    /\ input = NoInput
    /\ validation = NotValidated
    /\ rateLimitStore = <<>>
    /\ copyStore = <<>>
    /\ rateResponse = NoResponse
    /\ rateLog = <<>>
    /\ storeOrder = <<>>
    /\ swept = NotSwept
    /\ clients = {}
    /\ faults = NoFault
    /\ form = NotRendered

NextResults ==
    \/ \E p \in Procs : GetPollResults(p)
    \/ \E p \in Procs : Return(p)

SpecResults == InitResults /\ [][NextResults]_vars

\* ------------------------------- the actions when calls to the store can fail
\* the store after u1 created a poll with two options; the store or the
\* environment is at fault in the run
InitFaults ==
    /\ profiles = {[id |-> "u1", email |-> "u1@example.com"]}
    /\ polls = {[id |-> 1, creator_id |-> "u1", is_active |-> TRUE, end_date |-> {}]}
    /\ options = {[id |-> 1, poll_id |-> 1, entry |-> 0,
                   display_order |-> 1],
                  [id |-> 2, poll_id |-> 1, entry |-> 1,
                   display_order |-> 2]}
    /\ votes = {}
    /\ nextPollId = 2
    /\ nextOptionId = 3
    /\ nextVoteId = 1
    /\ now = 0
    /\ calls = 0
    /\ call = [p \in Procs |-> Idle]
    /\ input = NoInput
    /\ validation = NotValidated
    /\ rateLimitStore = <<>>
    /\ copyStore = <<>>
    /\ rateResponse = NoResponse
    /\ rateLog = <<>>
    /\ storeOrder = <<>>
    /\ swept = NotSwept
    /\ clients = {}
    /\ faults \in {StoreFault, EnvFault}
    /\ form = NotRendered

\* the steps of a call that has started: each is the continuation of an await
Continue(p) ==
    \/ VoteCheckStatus(p)
    \/ VoteSelectVote(p)
    \/ VoteInsert(p)
    \/ CreateInsertProfile(p)
    \/ CreateInsertPoll(p)
    \/ CreateInsertOptions(p)
    \/ CreateCompensate(p)
    \/ UpdatePollRow(p)
    \/ UpdateDeleteOptions(p)
    \/ UpdateInsertOptions(p)
    \/ DeleteOptions(p)
    \/ DeleteVotes(p)
    \/ DeletePollRow(p)

\* every store call settles (with data or with an error), after which the
\* event loop runs the continuation of the call that awaited it
SpecFaults == InitFaults /\ [][Next]_vars /\ \A p \in Procs : WF_vars(Continue(p))
\* --------------------------------------- the validation layer on its own
InitValidate ==
    /\ profiles = {}
    /\ polls = {}
    /\ options = {}
    /\ votes = {}
    /\ nextPollId = 1
    /\ nextOptionId = 1
    /\ nextVoteId = 1
    /\ now = 0
    /\ calls = 0
    /\ call = [p \in Procs |-> Idle]
    /\ input \in ValidateInputs
    /\ validation = NotValidated
    /\ rateLimitStore = <<>>
    /\ copyStore = <<>>
    /\ rateResponse = NoResponse
    /\ rateLog = <<>>
    /\ storeOrder = <<>>
    /\ swept = NotSwept
    /\ clients = {}
    /\ faults = NoFault
    /\ form = NotRendered

Validate ==
    /\ ~validation.ran
    /\ validation' = validateCreatePoll(input)
    /\ UNCHANGED <<storeVars, now, calls, call, input, rateVars, faults, form>>

NextValidate == Validate

SpecValidate == InitValidate /\ [][NextValidate]_vars

\* ------------------------------------------ the rate limiter on its own
MaxOverLimit == 2
\* the instants at which Date.now() is read
RateTimes == {0, 1000, 30000, 60000, 60001, 120002}

NoRequest == Request(<<>>, "", "", <<>>, "", "", "", "")
\* a request from http://localhost:3000 that came through one proxy
Api(path, method, userId) ==
    Request(path, method, userId, <<Entry(1, "10.0.0.1")>>, "", "", "http://localhost:3000", "")
\* a caller of checkRateLimit, a request to middleware, a caller of the second
\* copy's rateLimitMiddleware
Direct(key, limit) ==
    [entry |-> "checkRateLimit", key |-> key, limit |-> limit, request |-> NoRequest,
     action |-> "", once |-> FALSE]
ByMiddleware(request) ==
    [entry |-> "middleware", key |-> <<"", "">>, limit |-> {}, request |-> request,
     action |-> "", once |-> FALSE]
ByCopy(request, action) ==
    [entry |-> "rateLimitMiddleware", key |-> <<"", "">>, limit |-> {}, request |-> request,
     action |-> action, once |-> FALSE]
\* a client address that sends a single general request in the run, one
\* second after the start
Once(ip) == [Direct(<<ip, "general">>, RATE_LIMITS("GENERAL")) EXCEPT !.once = TRUE]
\* other addresses, as many as the Map may hold after a cleanup; they are
\* interchangeable and send their requests in the order of this list
OtherAddresses == <<"10.0.0.2", "10.0.0.3", "10.0.0.4", "10.0.0.5", "10.0.0.6">>
Crowd == {Once(OtherAddresses[i]) : i \in 1..MAX_STORE_SIZE}

MiddlewareClientSets ==
    {{ByMiddleware(Api(<<"api", "polls">>, "POST", "u1")),
      ByMiddleware(Api(<<"api", "polls", "1">>, "DELETE", "u1"))},
     {ByMiddleware(Api(<<"api", "polls", "1", "vote">>, "POST", "u1")),
      ByMiddleware(Api(<<"api", "vote">>, "POST", "u1"))},
     {ByMiddleware(Api(<<"api", "polls", "1">>, "PUT", "u1")),
      ByMiddleware(Api(<<"api", "health">>, "GET", ""))},
     {ByMiddleware(Request(<<"api", "polls">>, "POST", "", <<>>, "", "",
                           "https://evil.example", "")),
      ByMiddleware(Api(<<"polls">>, "GET", "u1"))}}

\* the requests that arrive in one run
ClientSets ==
    {{Direct(<<"u1", "delete_poll">>, RATE_LIMITS("DELETE_POLL")),
      Direct(<<"u1", "create_poll">>, RATE_LIMITS("CREATE_POLL"))},
     {Direct(<<"u1", "delete_poll">>, RATE_LIMITS("DELETE_POLL")),
      Direct(<<"10.0.0.1", "delete_poll">>, RATE_LIMITS("DELETE_POLL"))},
     {Direct(<<"u1", "vote">>, RATE_LIMITS("VOTE"))},
     {Direct(<<"u1", "delete_poll">>, RATE_LIMITS("DELETE_POLL"))} \cup Crowd,
     {Direct(<<"u1", "general">>, RATE_LIMITS("GENERAL"))},
     {ByCopy(Api(<<"api", "polls", "1">>, "DELETE", "u1"), "delete_poll"),
      ByCopy(Api(<<"api", "polls">>, "POST", "u1"), "create_poll")},
     {ByCopy(Api(<<"api", "polls", "1">>, "DELETE", "u1"), "delete_poll"),
      ByCopy(Api(<<"api", "polls", "1">>, "DELETE", ""), "delete_poll")}}
    \cup MiddlewareClientSets

InitRate ==
    /\ profiles = {}
    /\ polls = {}
    /\ options = {}
    /\ votes = {}
    /\ nextPollId = 1
    /\ nextOptionId = 1
    /\ nextVoteId = 1
    /\ now = 0
    /\ calls = 0
    /\ call = [p \in Procs |-> Idle]
    /\ input = NoInput
    /\ validation = NotValidated
    /\ rateLimitStore = <<>>
    /\ copyStore = <<>>
    /\ rateResponse = NoResponse
    /\ rateLog = <<>>
    /\ storeOrder = <<>>
    /\ swept = NotSwept
    /\ clients \in ClientSets
    /\ faults = NoFault
    /\ form = NotRendered

\* swept describes the run of the cleanup that was the last step; a later
\* step keeps only that the timer has run
Settled(sw) == [NotSwept EXCEPT !.ran = sw.ran]

RateTick ==
    /\ \E t \in RateTimes : t > now /\ now' = t
    /\ swept' = Settled(swept)
    /\ UNCHANGED <<storeVars, calls, call, validationVars, rateLimitStore, copyStore,
                   rateResponse, rateLog, clients, storeOrder, faults, form>>

\* the calls of checkRateLimit on a key since its window began: a window runs
\* from its first call to the window length later, that instant included
LogExpired(key, window, t) == key \notin DOMAIN rateLog \/ t > rateLog[key].start + window
LogAfter(key, window, t, accepted) ==
    LET one == IF accepted THEN 1 ELSE 0
    IN  IF LogExpired(key, window, t)
        THEN MapSet(rateLog, key,
                    [start |-> t, calls |-> 1, accepted |-> one,
                     evicted |-> IF key \in DOMAIN rateLog THEN rateLog[key].evicted
                                 ELSE FALSE,
                     windows |-> IF key \in DOMAIN rateLog THEN rateLog[key].windows + 1
                                 ELSE 1])
        ELSE MapSet(rateLog, key, [rateLog[key] EXCEPT !.calls = @ + 1,
                                                       !.accepted = @ + one])

\* the log notes the keys whose record a cleanup removed inside its window
LogEvicted(store, after, t) ==
    [k \in DOMAIN rateLog |->
        IF k \in DOMAIN store /\ k \notin DOMAIN after /\ ~Expired(store[k], t)
        THEN [rateLog[k] EXCEPT !.evicted = TRUE]
        ELSE rateLog[k]]

\* handler p calls checkRateLimit(key, limit)
CheckRateLimit(p) ==
    /\ \E c \in clients :
          /\ c.entry = "checkRateLimit"
          /\ c.once => /\ now = 1000
                       /\ c.key \notin DOMAIN rateLog
                       /\ \A i \in 2..MAX_STORE_SIZE :
                              c.key[1] = OtherAddresses[i]
                                 => <<OtherAddresses[i - 1], "general">> \in DOMAIN rateLog
          /\ LET l == CHOOSE x \in c.limit : TRUE
                 r == checkRateLimit(rateLimitStore, c.key, c.limit, now)
             IN  /\ IF LogExpired(c.key, l.window, now) THEN TRUE
                     ELSE rateLog[c.key].calls < l.requests + MaxOverLimit
                 /\ rateLimitStore' = r.store
                 /\ storeOrder' = KeysInOrder(storeOrder, DOMAIN r.store)
                 /\ rateResponse' = [handler |-> p, status |-> r.returns, retryAfter |-> {},
                                     key |-> {c.key}, at |-> now, path |-> <<>>,
                                     method |-> ""]
                 /\ rateLog' = LogAfter(c.key, l.window, now, r.returns = "true")
    /\ swept' = Settled(swept)
    /\ UNCHANGED <<storeVars, now, calls, call, validationVars, copyStore, clients,
                   faults, form>>

\* handler p runs middleware(request); a request that got past the rate limit
\* counts as accepted (at most MaxOverLimit requests per key and window)
Middleware(p) ==
    /\ \E c \in clients :
          /\ c.entry = "middleware"
          /\ LET r == middleware(rateLimitStore, c.request, now)
                 accepted == r.response.status \in {Pass, Forbidden}
             IN  /\ \A k \in r.response.key :
                        IF LogExpired(k, RateWindow, now) THEN TRUE
                        ELSE rateLog[k].calls < MaxOverLimit
                 /\ rateLimitStore' = r.store
                 /\ storeOrder' = KeysInOrder(storeOrder, DOMAIN r.store)
                 /\ rateResponse' = [r.response EXCEPT !.handler = p, !.at = now,
                                                       !.path = c.request.path,
                                                       !.method = c.request.method]
                 /\ rateLog' = IF r.response.key = {} THEN rateLog
                               ELSE LogAfter(CHOOSE k \in r.response.key : TRUE,
                                             RateWindow, now, accepted)
    /\ swept' = Settled(swept)
    /\ UNCHANGED <<storeVars, now, calls, call, validationVars, copyStore, clients,
                   faults, form>>

\* handler p calls the second copy's rateLimitMiddleware(request, action, userId)
CopyRateLimit(p) ==
    /\ \E c \in clients :
          /\ c.entry = "rateLimitMiddleware"
          /\ LET r == CopyRateLimitMiddleware(copyStore, c.request, c.action,
                                              c.request.userId, now)
             IN  /\ copyStore' = r.store
                 /\ rateResponse' = [r.response EXCEPT !.handler = p, !.at = now]
    /\ swept' = Settled(swept)
    /\ UNCHANGED <<storeVars, now, calls, call, validationVars, rateLimitStore, rateLog,
                   clients, storeOrder, faults, form>>

\* ------------------------------------------- the cleanup of a filled store
ResetTimes == {60000, 60001, 120002}

\* the Map after the i-th client address made one general request that set
\* resetTime to resets[i]
FilledStore(resets) ==
    [k \in {<<i, "general">> : i \in 1..Len(resets)} |->
        [count |-> 1, resetTime |-> resets[k[1]]]]
FilledOrder(resets) == [i \in 1..Len(resets) |-> <<i, "general">>]

InitCleanup ==
    /\ profiles = {}
    /\ polls = {}
    /\ options = {}
    /\ votes = {}
    /\ nextPollId = 1
    /\ nextOptionId = 1
    /\ nextVoteId = 1
    /\ now \in RateTimes
    /\ calls = 0
    /\ call = [p \in Procs |-> Idle]
    /\ input = NoInput
    /\ validation = NotValidated
    /\ \E n \in 0..(MAX_STORE_SIZE + 2) : \E resets \in [1..n -> ResetTimes] :
          /\ rateLimitStore = FilledStore(resets)
          /\ storeOrder = FilledOrder(resets)
          /\ copyStore = FilledStore(resets)
    /\ rateResponse = NoResponse
    /\ rateLog = <<>>
    /\ swept = NotSwept
    /\ clients = {}
    /\ faults = NoFault
    /\ form = NotRendered

\* the interval timer runs cleanupRateLimitStore of lib/middleware/security;
\* its period of 5 minutes is longer than the span of RateTimes, so a behaviour
\* has at most one run of the timer
Cleanup ==
    /\ ~swept.ran
    /\ LET r == cleanupRateLimitStore(rateLimitStore, storeOrder, now)
       IN  /\ rateLimitStore' = r.store
           /\ storeOrder' = r.order
           /\ rateLog' = LogEvicted(rateLimitStore, r.store, now)
    /\ swept' = [ran |-> TRUE, copy |-> FALSE, before |-> rateLimitStore,
                 order |-> storeOrder, at |-> now]
    /\ UNCHANGED <<storeVars, now, calls, call, validationVars, copyStore, rateResponse,
                   clients, faults, form>>

\* the interval timer runs cleanupRateLimitStore of the second copy
CopyCleanup ==
    /\ ~swept.ran
    /\ copyStore' = CopyCleanupRateLimitStore(copyStore, now)
    /\ swept' = [ran |-> TRUE, copy |-> TRUE, before |-> copyStore,
                 order |-> storeOrder, at |-> now]
    /\ UNCHANGED <<storeVars, now, calls, call, validationVars, rateLimitStore, storeOrder,
                   rateResponse, rateLog, clients, faults, form>>

NextCleanup ==
    \/ Cleanup
    \/ CopyCleanup

SpecCleanup == InitCleanup /\ [][NextCleanup]_vars

NextRate ==
    \/ RateTick
    \/ \E p \in Procs : CheckRateLimit(p)
    \/ \E p \in Procs : Middleware(p)
    \/ \E p \in Procs : CopyRateLimit(p)
    \/ Cleanup
    \/ CopyCleanup

SpecRate == InitRate /\ [][NextRate]_vars

\* ==================================================================== claims
VoteCalls == {p \in Procs : call[p].op = "vote"}
DoneVotes == {p \in VoteCalls : call[p].pc = "done"}
\* the poll row a vote call read at its status check
SeenRow(p) == CHOOSE r \in call[p].seenPoll : TRUE
SawPoll(p) == call[p].polled /\ call[p].seenPoll # {}
SawEndBefore(p) == SawPoll(p) /\ \E e \in SeenRow(p).end_date : e < call[p].seenAt
SawEndAt(p) == SawPoll(p) /\ SeenRow(p).end_date = {call[p].seenAt}

\* C1: for every poll and voter there is at most one Vote row with that
\* (poll_id, voter_id), under any interleaving of voteOnPoll calls.
Thm_C1_OneVotePerPollVoter ==
    \A v \in votes, w \in votes :
        (v.poll_id = w.poll_id /\ v.voter_id = w.voter_id) => v = w

\* two calls of one voter on one poll both passed the duplicate pre-check; one
\* inserted its row and the store rejected the other's insert
Witness_C1_RaceResolved ==
    \E p \in DoneVotes, q \in DoneVotes :
        /\ p # q
        /\ call[p].pollId = call[q].pollId /\ call[p].userId = call[q].userId
        /\ call[p].dupChecked /\ ~call[p].dupAtCheck
        /\ call[q].dupChecked /\ ~call[q].dupAtCheck
        /\ call[p].wrote /\ call[p].result = OK
        /\ call[q].uniqueRejected /\ ~call[q].wrote

\* C2: a vote call whose insert the uniqueness constraint rejects returns
\* 'You have already voted on this poll'.
CE_C2_UniqueRejectionIsAlreadyVoted ==
    \A p \in VoteCalls : call[p].uniqueRejected => call[p].result = ErrAlreadyVoted

\* C3 as stated: a vote by an authenticated voter on a poll whose end_date is
\* before the current time fails with 'This poll has ended', whatever
\* is_active is, and inserts no Vote row.
CE_C3_EndedWhateverActive ==
    \A p \in DoneVotes :
        (call[p].userId # NoUser /\ SawEndBefore(p))
            => (call[p].result = ErrEnded /\ ~call[p].wrote)

\* C3 amended: such a vote inserts no Vote row and fails with 'This poll has
\* ended' when is_active is true, with 'This poll is no longer active' when
\* is_active is false.
Thm_C3_EndedOrInactive ==
    \A p \in DoneVotes :
        (call[p].userId # NoUser /\ SawEndBefore(p))
            => /\ ~call[p].wrote
               /\ call[p].result = IF SeenRow(p).is_active THEN ErrEnded ELSE ErrInactive

\* an authenticated vote on an active poll past its end date was refused
Witness_C3_ActivePollEnded ==
    \E p \in DoneVotes :
        /\ call[p].userId # NoUser /\ SawEndBefore(p) /\ SeenRow(p).is_active
        /\ call[p].result = ErrEnded /\ ~call[p].wrote

\* C4: voteOnPoll returns the error of the first failing guard, in the order
\* empty voter id, poll missing, is_active false, end timestamp not after now,
\* existing vote; later guards are not consulted and no Vote row is inserted.
CE_C4_GuardOrder ==
    \A p \in DoneVotes :
        IF call[p].userId = NoUser
        THEN call[p].result = ErrVoteAuth /\ ~call[p].polled /\ ~call[p].wrote
        ELSE IF call[p].seenPoll = {}
        THEN call[p].result = ErrNotFound /\ ~call[p].dupChecked /\ ~call[p].wrote
        ELSE IF ~SeenRow(p).is_active
        THEN call[p].result = ErrInactive /\ ~call[p].dupChecked /\ ~call[p].wrote
        ELSE IF \E e \in SeenRow(p).end_date : ~(e > call[p].seenAt)
        THEN call[p].result = ErrEnded /\ ~call[p].dupChecked /\ ~call[p].wrote
        ELSE call[p].dupAtCheck => (call[p].result = ErrAlreadyVoted /\ ~call[p].wrote)

\* C5: a vote on an active poll whose end_date equals the current time fails
\* with 'This poll has ended' and inserts no Vote row.
CE_C5_EndAtNowIsEnded ==
    \A p \in DoneVotes :
        (call[p].userId # NoUser /\ SawEndAt(p) /\ SeenRow(p).is_active)
            => (call[p].result = ErrEnded /\ ~call[p].wrote)

\* C6 as stated: a voter who already has a Vote row on the poll and calls
\* voteOnPoll on it again gets 'You have already voted on this poll', and the
\* call adds no Vote row.
CE_C6_RepeatIsAlreadyVoted ==
    \A p \in DoneVotes :
        call[p].hadVote => (call[p].result = ErrAlreadyVoted /\ ~call[p].wrote)

\* C6 amended: such a call adds no Vote row while the voter's row exists at
\* the duplicate check; it returns 'You have already voted on this poll' when
\* it reaches that check, and otherwise the error of the status guard that
\* stopped it (poll missing, inactive or ended).
Thm_C6_RepeatVoteRefused ==
    \A p \in DoneVotes :
        call[p].hadVote =>
            /\ call[p].dupAtCheck => (call[p].result = ErrAlreadyVoted /\ ~call[p].wrote)
            /\ ~call[p].dupChecked =>
                  (call[p].result \in {ErrNotFound, ErrInactive, ErrEnded} /\ ~call[p].wrote)

\* a voter with a row on the poll voted again, for another option, and was
\* told so; the row is still the only one
Witness_C6_RepeatRefused ==
    \E p \in DoneVotes :
        /\ call[p].hadVote /\ call[p].result = ErrAlreadyVoted /\ ~call[p].wrote
        /\ \E v \in votes : /\ v.poll_id = call[p].pollId /\ v.voter_id = call[p].userId
                            /\ v.option_id # call[p].optionId
        /\ Cardinality(VoteRows(call[p].pollId)) = 1

\* C7: every Vote row references an option of the poll the vote references.
CE_C7_VoteOptionInPoll ==
    \A v \in votes : \E o \in options : o.id = v.option_id /\ o.poll_id = v.poll_id

\* C8: a Vote row, once inserted, is removed only by a deletePoll of its poll
\* run by the poll's creator (the delete statements come after the ownership
\* guard); in particular updatePoll leaves the poll's Vote rows unchanged.
CE_C8_VotesImmutable ==
    [][\A v \in votes :
          \/ v \in votes'
          \/ \E p \in Procs : /\ call[p].op = "delete"
                              /\ call[p].pollId = v.poll_id
                              /\ call[p].pc \in {"deleteOptions", "deleteVotes", "deletePoll"}
                              /\ call'[p] # call[p]]_vars

\* C9: a createPoll call whose options list has fewer than 2 entries returns
\* a failure and creates no Poll, Option or Profile row.
CE_C9_CreateValidatesFirst ==
    \A p \in Procs :
        (call[p].op = "create" /\ call[p].nopts < OptionsMin)
            => (~call[p].wrote /\ call[p].result # OK)

\* C10: validateCreatePoll fails for every input with fewer than 2 candidate
\* entries that are non-empty after trimming; every candidate_name of a
\* successfully validated value has length 1..255.
NonEmptyEntries(data) ==
    {i \in 1..Len(data.options) : StrLen(Trim(data.options[i].candidate_name)) > 0}
CE_C10_TwoNonEmptyCandidates ==
    (validation.ran /\ validation.success) =>
        /\ Cardinality(NonEmptyEntries(input)) >= OptionsMin
        /\ \A i \in 1..Len(validation.data.options) :
              /\ StrLen(validation.data.options[i].candidate_name) >= CandidateNameMin
              /\ StrLen(validation.data.options[i].candidate_name) <= CandidateNameMax

\* C11: validateCreatePoll succeeds only for a title of 1..500 characters after
\* trimming, 2..10 options, every candidate_name of at most 255 characters,
\* every party_name of at most 100 characters and an election_type of the
\* enum; an input with a candidate name longer than 255, a title empty after
\* trimming or more than 10 options is rejected.
CE_C11_SuccessOnlyWithinBounds ==
    (validation.ran /\ validation.success) =>
        /\ StrLen(Trim(input.title)) >= TitleMin
        /\ StrLen(Trim(input.title)) <= TitleMax
        /\ Len(input.options) >= OptionsMin
        /\ Len(input.options) <= OptionsMax
        /\ \A i \in 1..Len(input.options) :
              /\ StrLen(input.options[i].candidate_name) <= CandidateNameMax
              /\ \A party \in input.options[i].party_name : StrLen(party) <= PartyNameMax
        /\ input.election_type \in ElectionTypes

\* C12: an updatePoll or deletePoll call on an existing poll by a caller whose
\* userId differs from the poll's creator_id, a null creator_id included, ends
\* with the ownership failure and has written nothing; only a call by the
\* creator reaches the statements that modify the poll, its options or votes.
OwnerCalls == {p \in Procs : call[p].op \in {"update", "delete"} /\ call[p].userId # NoUser}
OwnerError(p) == IF call[p].op = "update" THEN ErrUpdateOwner ELSE ErrDeleteOwner
Thm_C12_OnlyCreatorModifies ==
    \A p \in OwnerCalls :
        /\ (SawPoll(p) /\ SeenRow(p).creator_id # call[p].userId)
              => (call[p].pc = "done" /\ call[p].result = OwnerError(p) /\ ~call[p].wrote)
        /\ (call[p].wrote \/ call[p].pc \notin {"idle", "done"})
              => (SawPoll(p) /\ SeenRow(p).creator_id = call[p].userId)

\* a poll without creator: an update and a delete by two users were both
\* refused and the poll and its two options are still there
Witness_C12_NullCreatorRefused ==
    \E p \in OwnerCalls, q \in OwnerCalls :
        /\ call[p].op = "update" /\ call[q].op = "delete"
        /\ call[p].userId # call[q].userId
        /\ call[p].pollId = 1 /\ call[q].pollId = 1
        /\ SawPoll(p) /\ SeenRow(p).creator_id = NullCreator
        /\ call[p].result = ErrUpdateOwner /\ call[q].result = ErrDeleteOwner
        /\ PollRows(1) # {} /\ Cardinality(OptionRows(1)) = 2

\* C13: once a deletePoll by the creator has returned success, no Option row
\* and no Vote row references that poll id, also when voteOnPoll calls on the
\* poll ran between its three delete statements.
Thm_C13_NoOrphansAfterDelete ==
    \A p \in Procs :
        (call[p].op = "delete" /\ call[p].pc = "done" /\ call[p].result = OK)
            => (OptionRows(call[p].pollId) = {} /\ VoteRows(call[p].pollId) = {})

\* a vote on the poll was inserted after the delete of the poll's votes and
\* before the delete of the poll row; the deletePoll has returned success
Witness_C13_VoteBetweenDeletes ==
    \E p \in Procs, q \in Procs :
        /\ call[p].op = "delete" /\ call[p].pc = "done" /\ call[p].result = OK
        /\ call[q].op = "vote" /\ call[q].pollId = call[p].pollId
        /\ call[q].result = OK /\ call[q].wrote /\ call[q].midDelete

\* the ceiling a caller of checkRateLimit passed for a key
CeilingOf(k) ==
    (CHOOSE l \in (CHOOSE c \in clients : c.entry = "checkRateLimit" /\ c.key = k).limit :
        TRUE).requests
Min(a, b) == IF a < b THEN a ELSE b
DirectKeys == IF \E c \in clients : c.entry = "checkRateLimit" THEN DOMAIN rateLog ELSE {}

\* C14 as stated: checkRateLimit with ceiling N on one key returns true for
\* the first N calls of a window and false for every further call of that
\* window; the first call after the reset time has passed returns true and
\* starts a new window with count 1.
FixedWindow(k) ==
    /\ rateLog[k].accepted = Min(rateLog[k].calls, CeilingOf(k))
    /\ rateResponse.key = {k} =>
          (rateResponse.status = IF rateLog[k].calls <= CeilingOf(k) THEN "true"
                                 ELSE "false")
    /\ (rateLog[k].calls = 1 /\ k \in DOMAIN rateLimitStore) =>
          rateLimitStore[k] = [count |-> 1, resetTime |-> rateLog[k].start + RateWindow]
CE_C14_FixedWindow == \A k \in DirectKeys : FixedWindow(k)

\* C14 amended: the same, for every key whose record no run of
\* cleanupRateLimitStore has removed inside its window (the cleanup removes
\* the records with the earliest reset times while the Map holds more than
\* MAX_STORE_SIZE of them; the next call on such a key returns true and
\* starts a window of its own).
EvictedInWindow(k) == rateLog[k].evicted
Thm_C14_FixedWindowUnlessEvicted ==
    \A k \in DirectKeys : ~EvictedInWindow(k) => FixedWindow(k)

\* one key has had N + 1 calls in its window and the last was refused; the
\* other key is in its second window, opened by a call that returned true
Witness_C14_RefusedAndReopened ==
    \E k \in DirectKeys, j \in DirectKeys :
        /\ k # j
        /\ ~EvictedInWindow(k) /\ ~EvictedInWindow(j)
        /\ rateLog[k].calls = CeilingOf(k) + 1 /\ rateLog[k].accepted = CeilingOf(k)
        /\ rateLog[j].windows = 2 /\ rateLog[j].calls = 1 /\ rateLog[j].accepted = 1
        /\ j \in DOMAIN rateLimitStore
        /\ rateLimitStore[j].count = 1 /\ rateLimitStore[j].resetTime = now + RateWindow
        /\ rateResponse.key = {j} /\ rateResponse.status = "true"

\* C15: every key (identity or IP, with the action kind) has its own window
\* and the ceiling of its action kind: create_poll 5, vote 10, update_poll 10,
\* delete_poll 3, general 100; requests on one key are accepted up to that
\* ceiling whatever happened on other keys.
ClaimedCeiling(action) ==
    IF action = "create_poll" THEN 5
    ELSE IF action = "vote" THEN 10
    ELSE IF action = "update_poll" THEN 10
    ELSE IF action = "delete_poll" THEN 3
    ELSE 100
CE_C15_CeilingPerAction ==
    \A k \in DOMAIN rateLog :
        rateLog[k].accepted = Min(rateLog[k].calls, ClaimedCeiling(k[2]))

\* C16: the retry-after hint of a rejection by rateLimitMiddleware is the time
\* left in the key's window, reset time minus now, in seconds.
CE_C16_HintIsRemainingTime ==
    (rateResponse.status = TooManyRequests) =>
        \A k \in rateResponse.key :
            rateResponse.retryAfter = {Ceil(copyStore[k].resetTime - rateResponse.at, 1000)}

\* C17 as stated: under any interleaving of the handlers' calls on one key,
\* the number of calls accepted for the key within one window never exceeds
\* the ceiling.
CE_C17_NeverOverCeiling ==
    \A k \in DirectKeys : rateLog[k].accepted <= CeilingOf(k)

\* C17 amended: it never exceeds the ceiling for a key whose record no run
\* of cleanupRateLimitStore has removed inside its window, and the count of a
\* record never exceeds the ceiling.
Thm_C17_NeverOverCeilingUnlessEvicted ==
    \A k \in DirectKeys :
        /\ ~EvictedInWindow(k) => rateLog[k].accepted <= CeilingOf(k)
        /\ k \in DOMAIN rateLimitStore => rateLimitStore[k].count <= CeilingOf(k)

\* the ceiling of a key is reached, and the call the second handler then
\* made on it was refused
Witness_C17_SecondHandlerRefused ==
    \E k \in DirectKeys :
        /\ ~EvictedInWindow(k)
        /\ rateLog[k].accepted = CeilingOf(k) /\ rateLog[k].calls > CeilingOf(k)
        /\ rateResponse.key = {k} /\ rateResponse.status = "false"
        /\ rateResponse.handler = 2
        /\ k \in DOMAIN rateLimitStore /\ rateLimitStore[k].count = CeilingOf(k)
\* C18: the results of a poll have one row per option of the poll; a row's
\* vote_count is the number of votes for the option; its percentage is 0 when
\* the poll has no votes, and otherwise the hundredth of a percent nearest to
\* count * 100 / total. After two voters voted for option 1 of a poll with
\* options 1 and 2, the rows are (1: 2 votes, 100%) and (2: 0 votes, 0%).
ResultCalls == {p \in Procs : call[p].op = "results" /\ call[p].pc = "done"
                                /\ call[p].result = OK}
CountOf(optionId) == Cardinality({v \in votes : v.option_id = optionId})
TotalOf(pollId) == Cardinality({v \in votes : v.poll_id = pollId})
Thm_C18_CountsAndPercentages ==
    \A p \in ResultCalls :
        LET total == TotalOf(call[p].pollId)
        IN  /\ {r.option_id : r \in call[p].data} = {o.id : o \in OptionRows(call[p].pollId)}
            /\ Cardinality(call[p].data) = Cardinality(OptionRows(call[p].pollId))
            /\ \A r \in call[p].data :
                   /\ r.vote_count = CountOf(r.option_id)
                   /\ total = 0 => r.vote_percentage = 0
                   /\ total > 0 =>
                         /\ 2 * r.vote_percentage * total <= 2 * r.vote_count * 10000 + total
                         /\ 2 * r.vote_percentage * total > 2 * r.vote_count * 10000 - total
                   /\ (total > 0 /\ r.vote_count = 0) => r.vote_percentage = 0
            /\ ({<<v.option_id, v.voter_id>> : v \in votes} = {<<1, "u1">>, <<1, "u2">>}
                 /\ call[p].pollId = 1)
               => /\ call[p].data = {[option_id |-> 1, vote_count |-> 2,
                                      vote_percentage |-> 10000],
                                     [option_id |-> 2, vote_count |-> 0,
                                      vote_percentage |-> 0]}
                  /\ total = 2

\* the results of the scenario were reported: two voters, both for option 1
Witness_C18_TwoVotesForA ==
    \E p \in ResultCalls :
        /\ call[p].pollId = 1
        /\ {<<v.option_id, v.voter_id>> : v \in votes} = {<<1, "u1">>, <<1, "u2">>}
        /\ \E r \in call[p].data : r.option_id = 1 /\ r.vote_percentage = 10000

\* a third of the votes was reported as 33.33% and two thirds as 66.67%
Witness_C18_Rounded ==
    \E p \in ResultCalls :
        /\ \E r \in call[p].data : r.vote_count = 1 /\ r.vote_percentage = 3333
        /\ \E r \in call[p].data : r.vote_count = 2 /\ r.vote_percentage = 6667
\* C19: whatever the store calls of an action return, the call ends, and it
\* ends with one tagged result: success, or failure with an error message. A
\* result is set only when the call ends, no call ends by an exception that
\* leaves the action, no step of a call (so no store call) is run twice, and
\* an action makes no more store calls than it has call sites.
ErrorMessages ==
    {ErrVoteAuth, ErrNotFound, ErrInactive, ErrEnded, ErrAlreadyVoted, ErrVoteUnique,
     ErrVoteForeignKey, ErrCreateAuth, ErrCreateProfile, ErrCreateOptions, ErrUpdateAuth,
     ErrUpdateOwner, ErrDeleteAuth, ErrDeleteOwner, ErrEnv, ErrEnvNotConfigured,
     ErrVerifyProfile, ErrCreatePollFailed, ErrCreateOptionsFailed, ErrVoteFailed,
     ErrUpdateFailed, ErrReplaceOptionsFailed, ErrDeleteOptionsFailed, ErrDeleteVotesFailed,
     ErrDeletePollFailed, ErrFetchPolls, ErrFetchPoll, ErrFetchPollNoRow, ErrFetchResults}
StoreCallSites(op) ==
    CASE op = "create" -> 5
      [] op = "vote" -> 3
      [] op = "update" -> 4
      [] op = "delete" -> 4
      [] OTHER -> 1
Running(p) == call[p].pc \notin {"idle", "done"}
TaggedResult(p) ==
    /\ call[p].pc # "crashed"
    /\ call[p].pc = "done" => call[p].result \in {OK} \cup ErrorMessages
    /\ call[p].pc = "done" /\ call[p].result # OK => call[p].data = {}
    /\ call[p].pc # "done" => call[p].result = Pending
    /\ call[p].storeCalls <= StoreCallSites(call[p].op)
NoStepTwice(p) ==
    (Running(p) /\ call[p]' # call[p])
        => /\ call[p]'.pc # call[p].pc
           /\ call[p]'.storeCalls =
                  call[p].storeCalls + (IF call[p].pc = "checkStatus" THEN 0 ELSE 1)
Thm_C19_EveryCallEndsTagged ==
    /\ [](\A p \in Procs : TaggedResult(p))
    /\ [][\A p \in Procs : NoStepTwice(p)]_vars
    /\ \A p \in Procs : Running(p) ~> (call[p].pc = "done")

\* a createPoll ended in failure after its insert of the options and its
\* compensating delete both failed: the poll row is left in the store
Witness_C19_FailedMidway ==
    \E p \in Procs :
        /\ faults = StoreFault
        /\ call[p].op = "create" /\ call[p].pc = "done"
        /\ call[p].result = ErrCreateOptionsFailed
        /\ call[p].storeCalls >= 4
        /\ PollRows(call[p].newPoll) # {}
\* C20: a createPoll call of an authenticated user who has no profile row
\* never ends with the failure of the stub profile's insert: the stub is
\* inserted for every first-time creator, the second and later ones included
CE_C20_StubForEveryFirstTimeCreator ==
    \A p \in Procs :
        (/\ call[p].op = "create" /\ call[p].pc = "done"
         /\ call[p].userId # NoUser
         /\ ProfileRows(call[p].userId) = {})
        => call[p].result # ErrCreateProfile
\* C21: of two createPoll calls of one user that both saw no profile, at most
\* one inserts the profile row, the user has at most one profile row, and the
\* step in which a call's profile insert is refused ends the call with a
\* failure, for a call that wrote nothing, and leaves the tables as they were
StubRefused(p) ==
    /\ call[p].op = "create" /\ call[p].pc = "insertProfile"
    /\ call[p]' # call[p]
    /\ ~call[p]'.stub
Thm_C21_DuplicateStubFailsSafely ==
    /\ [](\A u \in Users : Cardinality(ProfileRows(u)) <= 1)
    /\ [](\A p, q \in Procs :
             (p # q /\ call[p].op = "create" /\ call[q].op = "create"
              /\ call[p].userId = call[q].userId)
             => ~(call[p].stub /\ call[q].stub))
    /\ [][\A p \in Procs :
             StubRefused(p) => /\ call[p]'.pc = "done"
                               /\ call[p]'.result = ErrCreateProfile
                               /\ ~call[p]'.wrote
                               /\ call[p]'.newPoll = 0
                               /\ <<profiles, polls, options>>' = <<profiles, polls, options>>]_vars

\* two calls of u2, who had no profile, in a run without store faults: one
\* inserted the profile, the other was refused and ended in failure
Witness_C21_SecondStubRefused ==
    \E p, q \in Procs :
        /\ faults = NoFault
    /\ form = NotRendered
        /\ p # q /\ call[p].userId = "u2" /\ call[q].userId = "u2"
        /\ call[p].op = "create" /\ call[p].stub
        /\ call[q].op = "create" /\ call[q].pc = "done" /\ call[q].result = ErrCreateProfile
        /\ ~\E r \in polls : r.creator_id = "u2" /\ call[p].newPoll # r.id
\* C22: a createPoll call that inserted its poll row fails only by the failure
\* of its insert of the options; when its compensating delete then succeeded,
\* the call has returned a failure and its poll row is not in the store
FailedCreates == {p \in Procs : /\ call[p].op = "create" /\ call[p].pc = "done"
                                  /\ call[p].result # OK /\ call[p].newPoll # 0}
Thm_C22_FailedCreateLeavesNoPoll ==
    /\ \A p \in FailedCreates :
          /\ call[p].result \in {ErrCreateOptions, ErrCreateOptionsFailed}
          /\ call[p].compensated => PollRows(call[p].newPoll) = {}
    /\ \A p \in Procs : call[p].compensated => p \in FailedCreates

\* the insert of the options failed, the compensating delete succeeded
Witness_C22_Compensated ==
    \E p \in FailedCreates :
        /\ call[p].compensated
        /\ call[p].result = ErrCreateOptionsFailed
        /\ call[p].nopts = 2
        /\ PollRows(call[p].newPoll) = {}
\* C26: when two updatePoll calls on one poll have both returned success, the
\* poll's options are the list of one of the two calls: as many rows as the
\* call submitted, their display_order values distinct and forming 1..N
IsListOf(rows, p) ==
    /\ Cardinality(rows) = call[p].nopts
    /\ {r.display_order : r \in rows} = 1..call[p].nopts
CE_C26_OneListAfterTwoUpdates ==
    \A p, q \in Procs :
        (/\ p # q
         /\ call[p].op = "update" /\ call[p].pc = "done" /\ call[p].result = OK
         /\ call[q].op = "update" /\ call[q].pc = "done" /\ call[q].result = OK
         /\ call[p].pollId = call[q].pollId)
        => \/ IsListOf(OptionRows(call[p].pollId), p)
           \/ IsListOf(OptionRows(call[p].pollId), q)
\* C23: in the step in which a createPoll or an updatePoll call with N options
\* returns success, the options of its poll are exactly N rows, one per
\* submitted entry, the row of the entry at index i having display_order
\* i + 1 (so the display_order values are 1..N), and no other row
ReturnsSuccess(p) ==
    /\ call[p].pc # "done" /\ call[p]'.pc = "done" /\ call[p]'.result = OK
    /\ call[p]'.op \in {"create", "update"}
TargetPoll(c) == IF c.op = "create" THEN c.newPoll ELSE c.pollId
ExactlySubmitted(rows, n) ==
    /\ Cardinality(rows) = n
    /\ {r.entry : r \in rows} = 0..(n - 1)
    /\ {r.display_order : r \in rows} = 1..n
    /\ \A r \in rows : r.display_order = r.entry + 1
CE_C23_ExactlyTheSubmittedOptions ==
    [][\A p \in Procs :
          ReturnsSuccess(p)
          => ExactlySubmitted({o \in options' : o.poll_id = TargetPoll(call[p]')},
                              call[p]'.nopts)]_vars
\* C24: after cleanupRateLimitStore has run, the Map holds no entry whose
\* reset time is before the time of the run, it holds at most MAX_STORE_SIZE
\* entries, and every entry that was removed though not expired has a reset
\* time not after that of any entry that was kept
SweptStore == IF swept.copy THEN copyStore ELSE rateLimitStore
Evicted == {k \in DOMAIN swept.before \ DOMAIN SweptStore :
               swept.before[k].resetTime >= swept.at}
CleanupPost ==
    /\ \A k \in DOMAIN SweptStore : SweptStore[k].resetTime >= swept.at
    /\ \A k \in DOMAIN SweptStore : SweptStore[k] = swept.before[k]
    /\ Cardinality(DOMAIN SweptStore) <= MAX_STORE_SIZE
    /\ \A e \in Evicted : \A k \in DOMAIN SweptStore :
           swept.before[e].resetTime <= SweptStore[k].resetTime
CE_C24_SweptAndCapped == swept.ran => CleanupPost
\* C25: at the moment a vote row is inserted, the row of its poll is active
\* and its end_date, if it has one, is after the clock
OpenAtInsert(pollId) ==
    \E r \in polls : /\ r.id = pollId
                     /\ r.is_active
                     /\ \A e \in r.end_date : e > now
CE_C25_VoteOnlyIntoOpenPoll ==
    [][\A v \in votes' \ votes : OpenAtInsert(v.poll_id)]_vars
\* C27: whenever no action call is in progress, every poll row has between
\* OptionsMin and OptionsMax option rows
Quiescent == \A p \in Procs : call[p].pc \in {"idle", "done"}
CE_C27_TwoToTenOptionsAtRest ==
    Quiescent => \A r \in polls :
                    /\ Cardinality(OptionRows(r.id)) >= OptionsMin
                    /\ Cardinality(OptionRows(r.id)) <= OptionsMax
\* C28: a request to the middleware whose path starts with /api/ and contains
\* /vote is counted under the key of the vote category, whatever its method
\* and whether or not the path contains /polls
CE_C28_VotePathIsVoteCategory ==
    (StartsWithApi(rateResponse.path) /\ IncludesVote(rateResponse.path))
        => /\ rateResponse.key # {}
           /\ \A k \in rateResponse.key : k[2] = "vote"
\* C29 as stated: a record inside its window stays in the Map and changes
\* only by having its count raised by exactly 1, its reset time kept; a record
\* that is new, or changes after its window, has count 1; a step changes the
\* record of at most one key; a step that ends in a rejection changes no
\* record; and every record has a count between 1 and the ceiling of its
\* key's category
RecordStep(old, new, kept) ==
    /\ Cardinality({k \in DOMAIN new : k \notin DOMAIN old \/ new[k] # old[k]}) <= 1
    /\ \A k \in DOMAIN old :
          (~(now > old[k].resetTime) /\ kept)
             => /\ k \in DOMAIN new
                /\ IF new[k] = old[k] THEN TRUE
                   ELSE /\ new[k].count = old[k].count + 1
                        /\ new[k].resetTime = old[k].resetTime
    /\ \A k \in DOMAIN new :
          IF k \in DOMAIN old /\ new[k] = old[k] THEN TRUE
          ELSE IF k \in DOMAIN old /\ ~(now > old[k].resetTime)
          THEN /\ new[k].count = old[k].count + 1
               /\ new[k].resetTime = old[k].resetTime
          ELSE /\ new[k].count = 1
               /\ new[k].resetTime = now + RateWindow
RecordsInRange(store) ==
    \A k \in DOMAIN store : store[k].count >= 1 /\ store[k].count <= ClaimedCeiling(k[2])
\* the step is a run of the cleanup timer, not a call of a handler
TimerStep == ~swept.ran /\ swept'.ran
CE_C29_RecordChangesOnlyByAcceptedCalls ==
    /\ [](RecordsInRange(rateLimitStore) /\ RecordsInRange(copyStore))
    /\ [][/\ RecordStep(rateLimitStore, rateLimitStore', TRUE)
          /\ RecordStep(copyStore, copyStore', TRUE)
          /\ (rateResponse'.status \in {"false", TooManyRequests} /\ ~TimerStep)
                => <<rateLimitStore, copyStore>>' = <<rateLimitStore, copyStore>>]_vars

\* C29 amended: the same for every step of a handler; a run of
\* cleanupRateLimitStore changes no record that it keeps, and it can remove
\* a record inside its window
Thm_C29_RecordChangesByAcceptedCallsOrCleanup ==
    /\ [](RecordsInRange(rateLimitStore) /\ RecordsInRange(copyStore))
    /\ [][/\ RecordStep(rateLimitStore, rateLimitStore', ~TimerStep)
          /\ RecordStep(copyStore, copyStore', ~TimerStep)
          /\ TimerStep => /\ \A k \in DOMAIN rateLimitStore' :
                                 /\ k \in DOMAIN rateLimitStore
                                 /\ rateLimitStore'[k] = rateLimitStore[k]
                          /\ \A k \in DOMAIN copyStore' :
                                 k \in DOMAIN copyStore /\ copyStore'[k] = copyStore[k]
          /\ (rateResponse'.status \in {"false", TooManyRequests} /\ ~TimerStep)
                => <<rateLimitStore, copyStore>>' = <<rateLimitStore, copyStore>>]_vars

\* a call was rejected after time had passed in the window of its key: the
\* record is at the ceiling and its reset time is that of the window's start
Witness_C29_RejectedInsideWindow ==
    \E k \in DOMAIN rateLimitStore :
        /\ rateResponse.key = {k} /\ rateResponse.status = "false"
        /\ rateResponse.at = 30000
        /\ rateLimitStore[k] = [count |-> ClaimedCeiling(k[2]), resetTime |-> RateWindow]
\* C30: when the form was rendered for a poll row at the time at which a
\* voteOnPoll call ran its status guards on the same row, the form offers the
\* vote exactly when the call passed its active and end-date guards
PassedStatusGuards(p) == ~(call[p].pc = "done" /\ call[p].result \in {ErrInactive, ErrEnded})
CE_C30_FormAgreesWithGuards ==
    \A p \in Procs :
        (/\ call[p].op = "vote" /\ call[p].polled /\ call[p].pc # "checkStatus"
         /\ form.rendered /\ form.poll # {}
         /\ call[p].seenPoll = form.poll /\ call[p].seenAt = form.at)
        => (form.isPollActive <=> PassedStatusGuards(p))
====
